---- MODULE Spec2Model ----
(***************************************************************************)
(* Verification model of the datamig migration pipeline                    *)
(* (pauljbernard/datamig, scripts/).                                       *)
(*                                                                         *)
(* The pipeline is a set of independently started scripts.  Each script is *)
(* modelled by its own specification over its own variables:               *)
(*   SpecAnalyzer   scripts/schema-analyzer.py                             *)
(*   SpecAnon       scripts/anonymize.py                                   *)
(*   SpecCoord      scripts/github/trigger-migration.py                    *)
(*   SpecLoad       scripts/loaders/load_with_constraints.py               *)
(*   SpecToken      scripts/anonymize.py, anonymize_tokenize               *)
(*   SpecFile       scripts/anonymize.py, anonymize_dataset file by file   *)
(*   SpecValid      scripts/validators/validate_integrity.py               *)
(*   SpecGrow       the validator run again after data was added           *)
(*   SpecRollback   scripts/github/trigger-rollback.py                     *)
(*   SpecExtract    scripts/extractors/extract_with_relationships.py       *)
(*   SpecReport     scripts/generate-report.py                             *)
(* The variables of the scripts a specification does not run stay at their *)
(* idle values.                                                            *)
(***************************************************************************)
EXTENDS Integers, Sequences, FiniteSets, TLC

VARIABLES
    \* ---- schema-analyzer.py
    schema,      \* the catalog read from stdin: a list of tables with their FKs
    aPc,         \* "input" before main() ran, "done" after
    analysis,    \* the JSON document main() writes
    \* ---- anonymize.py
    salt,        \* ANONYMIZATION_SALT of the environment (<<>> when unset)
    mapFile,     \* the consistency map file on disk
    mappings,    \* ConsistencyMap.mappings of the running process
    anPc,        \* "idle", "running", "failed"
    runs,        \* number of anonymize_dataset runs started so far
    lastCell,    \* the last cell transformed that held a missing value or was
                 \* governed by a deterministic strategy: rule, original, output
    hist,        \* every (rule, original, output) a deterministic strategy produced
    storedFor,   \* every (rule, original) ConsistencyMap.set stored an entry for
    \* ---- trigger-migration.py
    cArgs,       \* the parsed command line
    cPc,         \* the coordinator's position in main()
    cStore,      \* index of the store the extraction / loading loop is at
    cRunning,    \* the stage whose subprocess is running (<<>> when none)
    cLog,        \* the stages started and finished so far, in order
    cRet,        \* main()'s return value (-1 while it runs)
    \* ---- load_with_constraints.py
    strategy,    \* the loading strategy requested
    db0,         \* the target store's committed rows when the run started
    committed,   \* the target store's committed rows
    work,        \* the rows visible inside the connection's open transaction
    conn,        \* "none", "open", "closed"
    lPc,         \* the loader's position in load_with_constraints
    lIdx,        \* index into loading_order of the next table
    results,     \* the results dictionary being built
    didCommit,   \* whether conn.commit() was executed
    lFiles,      \* the staged files the loop found for the tables it reached
    gStaged,     \* sp_nodes.parquet and sp_relationships.parquet of the input directory
    gTarget,     \* the nodes and relationships of the graph target
    neo4j,       \* results['neo4j'] (<<>>: not set)
    gLoaded,     \* nodes_loaded and rels_loaded of load_neo4j_graph as it left them
    \* ---- anonymize.py, file by file
    fRules,      \* the rule list of the rules file
    staged,      \* the staged Parquet files of the input directory
    written,     \* the anonymized files written to the output directory
    fIdx,        \* index of the next staged file
    report,      \* the results dictionary of anonymize_dataset
    \* ---- validators/validate_integrity.py
    datasets,    \* the datasets load_parquet_files returns
    manifest,    \* the schema analysis document (absent or its declared FKs)
    vRules,      \* the validation rules file
    vPc,         \* "input" before validate_integrity ran, "done" after
    vResults,    \* the results dictionary of validate_integrity
    vReport,     \* the report file: "none", "complete" or "partial"
    \* ---- trigger-rollback.py
    target,      \* the district's rows in each target store
    ghWorks,     \* whether the gh CLI can post comments during this run
    rPc,         \* the rollback's position in main()
    rIdx,        \* index into stores_reverse of the next store
    rRunning,    \* the store whose rollback subprocess is running (<<>>: none)
    rLog,        \* the subprocesses started and finished in this run, in order
    rComments,   \* the comments posted to the issue in this run, in order
    rDeleted,    \* the rows the rollback subprocesses of this run reported deleted
    rRet,        \* main()'s return value (-1 while it runs)
    rRuns,       \* the number of rollback runs started
    rPrev,       \* the outcome of the run before this one (<<>>: none)
    \* ---- extractors/extract_with_relationships.py
    source,      \* the tables of the source store, in extraction order
    exPc,        \* the extraction's position in extract_with_relationships
    exIdx,       \* index of the next table of tables_to_extract
    exResults,   \* the results dictionary of extract_with_relationships
    exManifest,  \* extraction-manifest.json (<<>>: not written)
    exExit,      \* the exit code of the extractor (-1 while it runs)
    exConn,      \* the extractor's connection: "none", "open" or "closed"
    \* ---- generate-report.py
    phaseFiles,  \* the manifests and reports the four phases left on disk
    rpPc,        \* "input" before collect_metrics ran, "done" after
    metrics      \* the metrics dictionary of collect_metrics

analyzerVars == <<schema, aPc, analysis>>
anonVars     == <<salt, mapFile, mappings, anPc, runs, lastCell, hist, storedFor>>
coordVars    == <<cArgs, cPc, cStore, cRunning, cLog, cRet>>
graphVars    == <<gStaged, gTarget, neo4j, gLoaded>>
loadVars     == <<strategy, db0, committed, work, conn, lPc, lIdx, results, didCommit,
                  lFiles, graphVars>>
fileVars     == <<fRules, staged, written, fIdx, report>>
validVars    == <<datasets, manifest, vRules, vPc, vResults, vReport>>
rollbackVars == <<target, ghWorks, rPc, rIdx, rRunning, rLog, rComments, rDeleted, rRet,
                  rRuns, rPrev>>
extractVars  == <<source, exPc, exIdx, exResults, exManifest, exExit, exConn>>
reportVars   == <<phaseFiles, rpPc, metrics>>
vars         == <<analyzerVars, anonVars, coordVars, loadVars, fileVars, validVars,
                  rollbackVars, extractVars, reportVars>>

Range(s) == {s[i] : i \in 1..Len(s)}

\* list.index(x) as a 1-based position (x occurs in s)
Index(s, x) == CHOOSE i \in 1..Len(s) : s[i] = x /\ \A j \in 1..(i - 1) : s[j] # x

(***************************************************************************)
(*                       scripts/schema-analyzer.py                        *)
(***************************************************************************)

\* Bounds of the catalogs explored.
MaxTables == 3
MaxFks == 3

\* Qualified table names store.schema.table of one relational store; the
\* number i stands for the i-th name in lexical order.
Names == 1..MaxTables

\* the relational stores of a catalog, in the order data_stores lists them
StoreNames == <<<<"ids">>, <<"hcp1">>>>

\* Bound of the table names of the second store.
MaxOtherTables == 1

\* The qualified names of all stores: the names of the first store are
\* Names, those of the second store follow.
QualifiedNames == 1..(MaxTables + MaxOtherTables)

\* the position in StoreNames of the store of the qualified name n
StoreIndex(n) == IF n <= MaxTables THEN 1 ELSE 2

\* the name of the table within its store
LocalName(n) == IF n <= MaxTables THEN n ELSE n - MaxTables

\* the qualified name of the table called local in the store-th store
Qualified(store, local) == IF store = 1 THEN local ELSE MaxTables + local

\* Strings are sequences of tokens, "." being a token of its own.
\* f"{table['schema']}.{table['name']}"
TableText(n) == <<"public", ".", "t" \o ToString(LocalName(n))>>

\* f"{store_name}.{table['schema']}.{table['name']}"
NameText(n) == StoreNames[StoreIndex(n)] \o <<".">> \o TableText(n)

RECURSIVE split(_, _)
\* str.split(sep)
split(text, sep) ==
    IF \A i \in 1..Len(text) : text[i] # sep THEN <<text>>
    ELSE LET at == CHOOSE i \in 1..Len(text) :
                      text[i] = sep /\ \A j \in 1..(i - 1) : text[j] # sep
         IN <<SubSeq(text, 1, at - 1)>> \o split(SubSeq(text, at + 1, Len(text)), sep)

RECURSIVE join(_, _)
\* sep.join(parts)
join(sep, parts) ==
    IF parts = <<>> THEN <<>>
    ELSE IF Len(parts) = 1 THEN parts[1]
    ELSE parts[1] \o <<sep>> \o join(sep, Tail(parts))

\* lists of at most k foreign keys (each names the referenced table)
FkListsUpTo(k) == UNION {[1..n -> Names] : n \in 0..k}

RECURSIVE FkAssign(_, _)
\* the FK lists of n tables holding at most budget foreign keys together
FkAssign(n, budget) ==
    IF n = 0 THEN {<<>>}
    ELSE UNION {{<<l>> \o rest : rest \in FkAssign(n - 1, budget - Len(l))}
                : l \in FkListsUpTo(budget)}

\* the tables of a catalog in the order they are listed: distinct names
TableLists ==
    {s \in UNION {[1..n -> Names] : n \in 0..MaxTables} :
        \A i, j \in 1..Len(s) : i # j => s[i] # s[j]}

\* the catalog listing the tables s with the foreign keys f[i] on table s[i]
Catalog(s, f) == [i \in 1..Len(s) |-> [name |-> s[i], foreign_keys |-> f[i]]]

\* A graph is a Python dict: its keys in insertion order and a list of
\* children per key (children[n] = <<>> for a name that is no key, which is
\* what graph.get(n, []) returns).
EmptyGraph == [keys |-> <<>>, children |-> [n \in QualifiedNames |-> <<>>]]

AddNode(g, n) ==
    IF n \in Range(g.keys) THEN g ELSE [g EXCEPT !.keys = Append(@, n)]

\* graph[parent].append(child) on a defaultdict(list)
AppendChild(g, parent, child) ==
    LET g1 == AddNode(g, parent)
    IN [g1 EXCEPT !.children[parent] = Append(@, child)]

RECURSIVE AddFks(_, _, _)
AddFks(g, table, i) ==
    IF i > Len(table.foreign_keys) THEN g
    ELSE AddFks(AppendChild(g, table.foreign_keys[i], table.name), table, i + 1)

RECURSIVE AddTables(_, _, _)
AddTables(g, sch, i) ==
    IF i > Len(sch) THEN g
    ELSE AddTables(AddFks(AddNode(g, sch[i].name), sch[i], 1), sch, i + 1)

build_dependency_graph(sch) == AddTables(EmptyGraph, sch, 1)

Nodes(g) == Range(g.keys)
Edges(g) == UNION {{<<u, v>> : v \in Range(g.children[u])} : u \in QualifiedNames}

RECURSIVE dfs(_, _, _, _)
RECURSIVE dfsNeighbors(_, _, _, _, _)
\* the loop "for neighbor in graph.get(node, [])" of dfs, from neighbor i on
dfsNeighbors(g, node, path, i, st) ==
    IF i > Len(g.children[node]) THEN st
    ELSE LET neighbor == g.children[node][i]
         IN IF neighbor \notin st.visited
            THEN dfsNeighbors(g, node, path, i + 1, dfs(g, neighbor, path, st))
            ELSE IF neighbor \in st.rec_stack
            THEN LET cycle_start == Index(path, neighbor)
                     cycle == SubSeq(path, cycle_start, Len(path)) \o <<neighbor>>
                 IN dfsNeighbors(g, node, path, i + 1,
                                 [st EXCEPT !.cycles = Append(@, cycle)])
            ELSE dfsNeighbors(g, node, path, i + 1, st)

dfs(g, node, path0, st) ==
    LET path == Append(path0, node)
        st1 == [st EXCEPT !.visited = @ \cup {node}, !.rec_stack = @ \cup {node}]
        st2 == dfsNeighbors(g, node, path, 1, st1)
    IN [st2 EXCEPT !.rec_stack = @ \ {node}]

RECURSIVE dfsRoots(_, _, _)
\* the loop "for node in graph" of find_cycles
dfsRoots(g, i, st) ==
    IF i > Len(g.keys) THEN st
    ELSE IF g.keys[i] \notin st.visited
         THEN dfsRoots(g, i + 1, dfs(g, g.keys[i], <<>>, st))
         ELSE dfsRoots(g, i + 1, st)

find_cycles(g) ==
    dfsRoots(g, 1, [visited |-> {}, rec_stack |-> {}, cycles |-> <<>>]).cycles

RECURSIVE AppendNew(_, _)
\* seq followed by the items not yet in it, in order
AppendNew(seq, items) ==
    IF items = <<>> THEN seq
    ELSE AppendNew(IF Head(items) \in Range(seq) THEN seq ELSE Append(seq, Head(items)),
                   Tail(items))

RECURSIVE AllChildren(_, _)
\* the children lists of keys i.. concatenated
AllChildren(g, i) ==
    IF i > Len(g.keys) THEN <<>>
    ELSE g.children[g.keys[i]] \o AllChildren(g, i + 1)

\* number of positions of s holding x
Count(s, x) == Cardinality({i \in 1..Len(s) : s[i] = x})

RECURSIVE ReduceChildren(_, _, _, _)
\* the loop "for child in graph.get(node, [])" of topological_sort
ReduceChildren(g, node, i, st) ==
    IF i > Len(g.children[node]) THEN st
    ELSE LET child == g.children[node][i]
             d == st.in_degree[child] - 1
         IN ReduceChildren(g, node, i + 1,
                [st EXCEPT !.in_degree[child] = d,
                           !.queue = IF d = 0 THEN Append(@, child) ELSE @])

RECURSIVE KahnLoop(_, _)
\* the loop "while queue"
KahnLoop(g, st) ==
    IF st.queue = <<>> THEN st
    ELSE LET node == Head(st.queue)
             st1 == [st EXCEPT !.queue = Tail(@), !.result = Append(@, node)]
         IN KahnLoop(g, ReduceChildren(g, node, 1, st1))

RECURSIVE Dedup(_)
\* list(dict.fromkeys(s)): s without repeated items
Dedup(s) == AppendNew(<<>>, s)

\* the same sort with the loop over the children of a node visiting each
\* distinct child once ("for child in set(graph[node])")
topological_sort_distinct_children(g) ==
    LET all_children == AllChildren(g, 1)
        all_nodes == AppendNew(g.keys, all_children)
        in_degree == [n \in QualifiedNames |-> Count(all_children, n)]
        queue == SelectSeq(all_nodes, LAMBDA n : in_degree[n] = 0)
        g1 == [g EXCEPT !.children = [n \in QualifiedNames |-> Dedup(g.children[n])]]
        st == KahnLoop(g1, [in_degree |-> in_degree, queue |-> queue, result |-> <<>>])
    IN [order |-> st.result, has_cycle |-> Len(st.result) # Len(all_nodes)]

topological_sort(g) ==
    LET all_children == AllChildren(g, 1)
        all_nodes == AppendNew(g.keys, all_children)
        in_degree == [n \in QualifiedNames |-> Count(all_children, n)]
        queue == SelectSeq(all_nodes, LAMBDA n : in_degree[n] = 0)
        st == KahnLoop(g, [in_degree |-> in_degree, queue |-> queue, result |-> <<>>])
    IN [order |-> st.result, has_cycle |-> Len(st.result) # Len(all_nodes)]

\* a suggestion that always names the first table of the cycle as break_to
suggest_break_point_to_first(cycle, g) ==
    LET tables == SubSeq(cycle, 1, Len(cycle) - 1)
        dep_count(t) == Len(g.children[t])
        first_min == CHOOSE i \in 1..Len(tables) :
                        /\ \A j \in 1..Len(tables) :
                              dep_count(tables[i]) <= dep_count(tables[j])
                        /\ \A j \in 1..(i - 1) :
                              dep_count(tables[j]) > dep_count(tables[i])
    IN [break_from |-> tables[first_min], break_to |-> cycle[1]]

suggest_break_point(cycle, g) ==
    LET tables == SubSeq(cycle, 1, Len(cycle) - 1)
        dep_count(t) == Len(g.children[t])
        \* min(dep_counts, key=dep_counts.get): the first key of the least count
        first_min == CHOOSE i \in 1..Len(tables) :
                        /\ \A j \in 1..Len(tables) :
                              dep_count(tables[i]) <= dep_count(tables[j])
                        /\ \A j \in 1..(i - 1) :
                              dep_count(tables[j]) > dep_count(tables[i])
        break_table == tables[first_min]
        idx == (Index(cycle, break_table) - 1) + 1
        next_idx == IF idx >= Len(cycle) - 1 THEN 0 ELSE idx
    IN [break_from |-> break_table, break_to |-> cycle[next_idx + 1]]

\* an empty defaultdict(list): a store that is no key has no tables
NoStoreTables == [store \in Range(StoreNames) |-> <<>>]

NoAnalysis ==
    [success |-> FALSE, dependency_graph |-> EmptyGraph, extraction_order |-> <<>>,
     extraction_by_store |-> NoStoreTables,
     circular_dependencies |-> <<>>, has_cycles |-> FALSE, total_tables |-> 0]

RECURSIVE by_store_first_part(_, _)
\* the same loop appending parts[1] in place of '.'.join(parts[1:])
by_store_first_part(extraction_order, by_store) ==
    IF extraction_order = <<>> THEN by_store
    ELSE LET parts == split(NameText(Head(extraction_order)), ".")
         IN by_store_first_part(Tail(extraction_order),
               IF Len(parts) >= 2
               THEN [by_store EXCEPT ![parts[1]] = Append(@, parts[2])]
               ELSE by_store)

RECURSIVE by_store(_, _)
\* the loop "for table in extraction_order" that fills extraction_by_store
by_store(extraction_order, extraction_by_store) ==
    IF extraction_order = <<>> THEN extraction_by_store
    ELSE LET parts == split(NameText(Head(extraction_order)), ".")
         IN by_store(Tail(extraction_order),
               IF Len(parts) >= 2
               THEN [extraction_by_store EXCEPT
                        ![parts[1]] = Append(@, join(".", Tail(parts)))]
               ELSE extraction_by_store)

\* The catalog of several stores as build_dependency_graph reads it: the
\* first k tables of s are those of the first store, the others those of
\* the second; every name, and every table a foreign key references, is
\* qualified by the store of the table that declares it.
StoresCatalog(s, f, k) ==
    [i \in 1..Len(s) |->
        LET store == IF i <= k THEN 1 ELSE 2
        IN [name |-> Qualified(store, s[i]),
            foreign_keys |-> [j \in 1..Len(f[i]) |-> Qualified(store, f[i][j])]]]

\* Bound of the foreign keys of the catalogs of several stores.
MaxStoreFks == 2

\* catalogs of two stores
StoresInit ==
    /\ aPc = "input"
    /\ analysis = NoAnalysis
    /\ \E s \in TableLists : \E f \in FkAssign(Len(s), MaxStoreFks) :
         \E k \in 0..Len(s) :
            /\ \A i \in (k + 1)..Len(s) :
                  /\ s[i] <= MaxOtherTables
                  /\ \A j \in 1..Len(f[i]) : f[i][j] <= MaxOtherTables
            /\ schema = StoresCatalog(s, f, k)

AnalyzerInit ==
    /\ aPc = "input"
    /\ analysis = NoAnalysis
    /\ \E s \in TableLists : \E f \in FkAssign(Len(s), MaxFks) :
         schema = Catalog(s, f)

\* the document main() builds from the catalog sch
main_result(sch) ==
    LET graph == build_dependency_graph(sch)
        cycles == find_cycles(graph)
        sorted == topological_sort(graph)
    IN [success |-> TRUE,
        dependency_graph |-> graph,
        extraction_order |-> sorted.order,
        extraction_by_store |-> by_store(sorted.order, NoStoreTables),
        circular_dependencies |->
           [i \in 1..Len(cycles) |->
               [tables |-> cycles[i],
                break_point |-> suggest_break_point(cycles[i], graph)]],
        has_cycles |-> sorted.has_cycle,
        total_tables |-> Len(sorted.order)]

\* main(): stdin to stdout
AnalyzerMain ==
    /\ aPc = "input"
    /\ analysis' = main_result(schema)
    /\ aPc' = "done"
    /\ UNCHANGED schema
    /\ UNCHANGED <<anonVars, coordVars, loadVars, fileVars, validVars, rollbackVars, extractVars, reportVars>>

(***************************************************************************)
(*                          scripts/anonymize.py                           *)
(***************************************************************************)

\* Bound: the number of anonymize_dataset runs explored.
MaxRuns == 2

\* A cell value is its Python type and its str() as a list of characters.
None == [t |-> "none", s |-> <<"None">>]
NaN == [t |-> "nan", s |-> <<"nan">>]
StrValue(chars) == [t |-> "str", s |-> chars]
IntValue(chars) == [t |-> "int", s |-> chars]

\* the originals the staged cells of a column may hold
CellsOf(column) ==
    IF column \in {"student_id", "grade"}
    THEN {None, NaN, IntValue(<<"1">>)}
    ELSE IF column \in {"email", "ssn"}
    THEN {None, StrValue(<<"a">>), StrValue(<<"b">>)}
    ELSE {None, StrValue(<<"a">>)}

\* value is None or pd.isna(value)
isna(value) == value.t \in {"none", "nan"}

\* config/anonymization-rules.yaml: the ordered rule list.  A field_pattern
\* is given by the set of column names re.search(pattern, name, IGNORECASE)
\* accepts.
Columns == {"email", "dob", "student_id", "ssn", "notes", "grade", "legacy", "misc"}

Rules == <<
    [name |-> <<"email_rule">>, field_pattern |-> {"email"},
     strategy |-> "faker", faker_type |-> "email", hash_algorithm |-> "sha256"],
    [name |-> <<"dob_rule">>, field_pattern |-> {"dob"},
     strategy |-> "faker", faker_type |-> "date_of_birth", hash_algorithm |-> "sha256"],
    [name |-> <<"id_rule">>, field_pattern |-> {"student_id"},
     strategy |-> "hash", faker_type |-> "", hash_algorithm |-> "sha256"],
    [name |-> <<"ssn_rule">>, field_pattern |-> {"ssn", "email"},
     strategy |-> "tokenize", faker_type |-> "", hash_algorithm |-> "sha256"],
    [name |-> <<"notes_rule">>, field_pattern |-> {"notes"},
     strategy |-> "nullify", faker_type |-> "", hash_algorithm |-> "sha256"],
    [name |-> <<"grade_rule">>, field_pattern |-> {"grade"},
     strategy |-> "preserve", faker_type |-> "", hash_algorithm |-> "sha256"],
    [name |-> <<"legacy_rule">>, field_pattern |-> {"legacy"},
     strategy |-> "mask", faker_type |-> "", hash_algorithm |-> "sha256"] >>

NoRule == [name |-> <<>>, field_pattern |-> {}, strategy |-> "",
           faker_type |-> "", hash_algorithm |-> ""]

\* what one call of the Faker provider may return
FakeValues(faker_type) ==
    IF faker_type = "email"
    THEN {StrValue(<<"u1", "@", "example.org">>), StrValue(<<"u2", "@", "example.org">>)}
    ELSE IF faker_type = "name"
    THEN {StrValue(<<"Ann Lee">>)}
    ELSE IF faker_type = "date_of_birth"
    THEN {[t |-> "date", s |-> <<"2001-02-03">>]}
    ELSE {StrValue(<<"FAKE_", faker_type>>)}

AllFakeValues == UNION {FakeValues(Rules[i].faker_type) : i \in 1..Len(Rules)}

\* f"{rule_name}:{original_value}"
Key(rule_name, original_value) == rule_name \o <<":">> \o original_value.s

EmptyMap == [k \in {} |-> None]

\* ConsistencyMap.get
MapGet(m, rule_name, original_value) ==
    IF isna(original_value) THEN None
    ELSE IF Key(rule_name, original_value) \in DOMAIN m
         THEN m[Key(rule_name, original_value)]
         ELSE None

\* ConsistencyMap.set
MapSet(m, rule_name, original_value, anonymized_value) ==
    IF isna(original_value) THEN m
    ELSE [k \in DOMAIN m \cup {Key(rule_name, original_value)} |->
            IF k = Key(rule_name, original_value) THEN anonymized_value ELSE m[k]]

\* anonymize_faker with the look-up in the consistency map left out
anonymize_faker_no_lookup(value, faker_type, m, rule_name, fake_value) ==
    IF isna(value) THEN [out |-> None, map |-> m]
    ELSE [out |-> fake_value, map |-> MapSet(m, rule_name, value, fake_value)]

\* anonymize_faker; fake_value is what the provider returns if it is called
anonymize_faker(value, faker_type, m, rule_name, fake_value) ==
    IF isna(value) THEN [out |-> None, map |-> m]
    ELSE IF MapGet(m, rule_name, value) # None
         THEN [out |-> MapGet(m, rule_name, value), map |-> m]
         ELSE [out |-> fake_value, map |-> MapSet(m, rule_name, value, fake_value)]

\* hashlib.<algorithm>(text).hexdigest()[:16], kept symbolic: distinct
\* texts have distinct digests
Digest(algorithm, text) == StrValue(<<algorithm, "(">> \o text \o <<")">>)

\* the same function without the guard for missing values
anonymize_hash_unguarded(value, salt_, hash_algorithm) ==
    Digest(IF hash_algorithm = "sha512" THEN "sha512" ELSE "sha256", value.s \o salt_)

anonymize_hash(value, salt_, hash_algorithm) ==
    IF isna(value) THEN None
    ELSE Digest(IF hash_algorithm = "sha512" THEN "sha512" ELSE "sha256",
                value.s \o salt_)

StartsWith(k, prefix) ==
    Len(k) >= Len(prefix) /\ SubSeq(k, 1, Len(prefix)) = prefix

DigitChars == <<"0", "1", "2", "3", "4", "5", "6", "7", "8", "9">>

RECURSIVE Pow10(_)
Pow10(e) == IF e = 0 THEN 1 ELSE 10 * Pow10(e - 1)

\* f"{n:08d}" for 0 <= n < 10^8
Format08d(n) == [i \in 1..8 |-> DigitChars[((n \div Pow10(8 - i)) % 10) + 1]]

anonymize_tokenize(value, m, rule_name) ==
    IF isna(value) THEN [out |-> None, map |-> m]
    ELSE IF MapGet(m, rule_name, value) # None
         THEN [out |-> MapGet(m, rule_name, value), map |-> m]
         ELSE LET token_num ==
                    Cardinality({k \in DOMAIN m : StartsWith(k, rule_name \o <<":">>)}) + 1
                  token == StrValue(<<"TOKEN_">> \o Format08d(token_num))
              IN [out |-> token, map |-> MapSet(m, rule_name, value, token)]

anonymize_nullify(value) == None

anonymize_preserve(value) == value

apply_anonymization_rule(value, rule, m, salt_, fake_value) ==
    IF rule.strategy = "faker"
    THEN anonymize_faker(value, rule.faker_type, m, rule.name, fake_value)
    ELSE IF rule.strategy = "hash"
    THEN [out |-> anonymize_hash(value, salt_, rule.hash_algorithm), map |-> m]
    ELSE IF rule.strategy = "tokenize"
    THEN anonymize_tokenize(value, m, rule.name)
    ELSE IF rule.strategy = "nullify"
    THEN [out |-> anonymize_nullify(value), map |-> m]
    ELSE IF rule.strategy = "preserve"
    THEN [out |-> anonymize_preserve(value), map |-> m]
    ELSE [out |-> value, map |-> m]

\* a binding that lets the last matching rule win
match_field_to_rule_last(field_name, rules) ==
    IF \E i \in 1..Len(rules) : field_name \in rules[i].field_pattern
    THEN rules[CHOOSE i \in 1..Len(rules) :
                  /\ field_name \in rules[i].field_pattern
                  /\ \A j \in (i + 1)..Len(rules) : field_name \notin rules[j].field_pattern]
    ELSE NoRule

\* match_field_to_rule: the first rule whose pattern matches
match_field_to_rule(field_name, rules) ==
    IF \E i \in 1..Len(rules) : field_name \in rules[i].field_pattern
    THEN rules[CHOOSE i \in 1..Len(rules) :
                  /\ field_name \in rules[i].field_pattern
                  /\ \A j \in 1..(i - 1) : field_name \notin rules[j].field_pattern]
    ELSE NoRule

\* The consistency map file: absent, a complete JSON document, or the
\* leading part of one (json.dump raised after open(..., 'w') truncated it).
NoFile == [kind |-> "absent", content |-> EmptyMap]

\* json.dump(consistency_map.to_dict(), f): a date is not JSON serializable
json_dump(m) ==
    IF \A k \in DOMAIN m : m[k].t = "str"
    THEN [kind |-> "complete", content |-> m]
    ELSE [kind |-> "partial", content |-> EmptyMap]

NoCell == [rule |-> <<>>, strategy |-> "", original |-> None, out |-> None]

DeterministicStrategies == {"faker", "hash", "tokenize"}

AnonIdle ==
    /\ salt = <<>>
    /\ mapFile = NoFile
    /\ mappings = EmptyMap
    /\ anPc = "idle"
    /\ runs = 0
    /\ lastCell = NoCell
    /\ hist = {}
    /\ storedFor = {}

AnonInit ==
    /\ salt \in {<<>>, <<"s3cret">>}
    /\ mapFile = NoFile
    /\ mappings = EmptyMap
    /\ anPc = "idle"
    /\ runs = 0
    /\ lastCell = NoCell
    /\ hist = {}
    /\ storedFor = {}

\* anonymize_dataset up to the file loop: the salt and the stored map are read
AnonStart ==
    /\ anPc = "idle"
    /\ runs < MaxRuns
    /\ runs' = runs + 1
    /\ lastCell' = NoCell
    /\ IF salt = <<>> \/ mapFile.kind = "partial"
       THEN /\ anPc' = "idle"            \* ValueError / JSONDecodeError: success False
            /\ mappings' = EmptyMap
       ELSE /\ anPc' = "running"
            /\ mappings' = mapFile.content
    /\ UNCHANGED <<salt, mapFile, hist, storedFor>>
    /\ UNCHANGED <<analyzerVars, coordVars, loadVars, fileVars, validVars, rollbackVars, extractVars, reportVars>>

\* one cell of one column of one file: the lambda anonymize_parquet_file applies
AnonCell ==
    /\ anPc = "running"
    /\ \E column \in Columns :
       \E value \in CellsOf(column) :
         LET rule == match_field_to_rule(column, Rules)
         IN \E fake_value \in FakeValues(rule.faker_type) :
              LET r == IF rule = NoRule
                       THEN [out |-> value, map |-> mappings]
                       ELSE apply_anonymization_rule(value, rule, mappings, salt, fake_value)
              IN /\ mappings' = r.map
                 /\ lastCell' = IF isna(value) \/ rule.strategy \in DeterministicStrategies
                                THEN [rule |-> rule.name, strategy |-> rule.strategy,
                                      original |-> value, out |-> r.out]
                                ELSE lastCell
                 /\ hist' = IF rule.strategy \in DeterministicStrategies /\ ~isna(value)
                            THEN hist \cup {[rule |-> rule.name, original |-> value,
                                             out |-> r.out]}
                            ELSE hist
                 /\ storedFor' = IF r.map # mappings
                                 THEN storedFor \cup {[rule |-> rule.name, original |-> value]}
                                 ELSE storedFor
    /\ UNCHANGED <<salt, mapFile, anPc, runs>>
    /\ UNCHANGED <<analyzerVars, coordVars, loadVars, fileVars, validVars, rollbackVars, extractVars, reportVars>>

\* the end of anonymize_dataset: the consistency map is written
AnonSave ==
    /\ anPc = "running"
    /\ mapFile' = json_dump(mappings)
    /\ anPc' = "idle"
    /\ UNCHANGED <<salt, mappings, runs, lastCell, hist, storedFor>>
    /\ UNCHANGED <<analyzerVars, coordVars, loadVars, fileVars, validVars, rollbackVars, extractVars, reportVars>>

AnonNext == AnonStart \/ AnonCell \/ AnonSave

(***************************************************************************)
(*                   scripts/github/trigger-migration.py                   *)
(***************************************************************************)

\* the extraction loop with the graph store forgotten
ExtractStoresWithoutGraph == <<"ids", "hcp1", "hcp2", "adb">>

\* the stores of the extraction loop and of the loading loop
ExtractStores == <<"ids", "hcp1", "hcp2", "adb", "sp">>

LoadStores == <<"ids", "hcp1", "hcp2", "adb", "sp">>

MigrationTypes == {"Full Migration", "Dry Run", "Validation Only"}

\* "Dry Run" in args.migration_type
IsDryRun(migration_type) == migration_type = "Dry Run"

\* "Validation Only" in args.migration_type
IsValidationOnly(migration_type) == migration_type = "Validation Only"

\* How a stage's script can end.  The anonymizer ends "pii_leak" when its
\* leak scan found a leak, the validator ends with its overall_status
\* ("CRASHED": an exception, no report written).
Outcomes(stage) ==
    IF stage = "anonymize" THEN {"ok", "pii_leak", "error"}
    ELSE IF stage = "validate"
    THEN {"PASSED", "PASSED_WITH_WARNINGS", "FAILED", "CRASHED"}
    ELSE {"ok", "error"}

\* sys.exit(0 if result['success'] else 1) of each stage's main()
ExitCode(stage, outcome) ==
    IF outcome \in {"ok", "PASSED", "PASSED_WITH_WARNINGS"} THEN 0 ELSE 1

\* a run_command that does not look at the exit code
run_command_unchecked(exit_code) == TRUE

\* run_command: subprocess.run(..., check=True) succeeded
run_command(exit_code) == exit_code = 0

Event(ev, stage, store, outcome) ==
    [ev |-> ev, stage |-> stage, store |-> store, outcome |-> outcome]

CoordIdle ==
    /\ cArgs = [skip_extraction |-> FALSE, skip_load |-> FALSE,
                migration_type |-> "Full Migration"]
    /\ cPc = "extract"
    /\ cStore = 1
    /\ cRunning = <<>>
    /\ cLog = <<>>
    /\ cRet = -1

CoordInit ==
    /\ cArgs \in [skip_extraction : BOOLEAN, skip_load : BOOLEAN,
                  migration_type : MigrationTypes]
    /\ cPc = "extract"
    /\ cStore = 1
    /\ cRunning = <<>>
    /\ cLog = <<>>
    /\ cRet = -1

ExtractionSkipped == cArgs.skip_extraction \/ IsDryRun(cArgs.migration_type)
LoadSkipped == cArgs.skip_load \/ IsValidationOnly(cArgs.migration_type)

\* subprocess.run is entered: the stage's script starts
Call(stage, store) ==
    /\ cRunning = <<>>
    /\ cRunning' = <<stage, store>>
    /\ cLog' = Append(cLog, Event("start", stage, store, ""))
    /\ UNCHANGED <<cArgs, cPc, cStore, cRet>>

\* subprocess.run returns: the stage's script has exited
Return(stage, outcome) ==
    /\ cRunning # <<>>
    /\ cRunning[1] = stage
    /\ cRunning' = <<>>
    /\ cLog' = Append(cLog, Event("end", stage, cRunning[2], outcome))

CoordSkipExtraction ==
    /\ cPc = "extract"
    /\ ExtractionSkipped
    /\ cPc' = "anonymize"
    /\ UNCHANGED <<cArgs, cStore, cRunning, cLog, cRet>>
    /\ UNCHANGED <<analyzerVars, anonVars, loadVars, fileVars, validVars, rollbackVars, extractVars, reportVars>>

CoordCallExtract ==
    /\ cPc = "extract"
    /\ ~ExtractionSkipped
    /\ Call("extract", ExtractStores[cStore])
    /\ UNCHANGED <<analyzerVars, anonVars, loadVars, fileVars, validVars, rollbackVars, extractVars, reportVars>>

CoordExtractExit ==
    \E outcome \in Outcomes("extract") :
        /\ Return("extract", outcome)
        /\ IF ~run_command(ExitCode("extract", outcome))
           THEN cPc' = "done" /\ cRet' = 1 /\ UNCHANGED cStore
           ELSE IF cStore < Len(ExtractStores)
           THEN cStore' = cStore + 1 /\ UNCHANGED <<cPc, cRet>>
           ELSE cPc' = "anonymize" /\ cStore' = 1 /\ UNCHANGED cRet
        /\ UNCHANGED cArgs
        /\ UNCHANGED <<analyzerVars, anonVars, loadVars, fileVars, validVars, rollbackVars, extractVars, reportVars>>

CoordCallAnonymize ==
    /\ cPc = "anonymize"
    /\ Call("anonymize", "")
    /\ UNCHANGED <<analyzerVars, anonVars, loadVars, fileVars, validVars, rollbackVars, extractVars, reportVars>>

CoordAnonymizeExit ==
    \E outcome \in Outcomes("anonymize") :
        /\ Return("anonymize", outcome)
        /\ IF ~run_command(ExitCode("anonymize", outcome))
           THEN cPc' = "done" /\ cRet' = 1
           ELSE cPc' = "validate" /\ UNCHANGED cRet
        /\ UNCHANGED <<cArgs, cStore>>
        /\ UNCHANGED <<analyzerVars, anonVars, loadVars, fileVars, validVars, rollbackVars, extractVars, reportVars>>

CoordCallValidate ==
    /\ cPc = "validate"
    /\ Call("validate", "")
    /\ UNCHANGED <<analyzerVars, anonVars, loadVars, fileVars, validVars, rollbackVars, extractVars, reportVars>>

\* the validator exits and the coordinator reads validation-report.json
\* (readable: the report could be opened and parsed)
CoordValidateExit ==
    \E outcome \in Outcomes("validate"), readable \in BOOLEAN :
        /\ Return("validate", outcome)
        /\ IF ~run_command(ExitCode("validate", outcome))
           THEN cPc' = "done" /\ cRet' = 1
           ELSE IF readable /\ outcome = "FAILED"
           THEN cPc' = "done" /\ cRet' = 1
           ELSE cPc' = "load" /\ UNCHANGED cRet
        /\ UNCHANGED <<cArgs, cStore>>
        /\ UNCHANGED <<analyzerVars, anonVars, loadVars, fileVars, validVars, rollbackVars, extractVars, reportVars>>

CoordSkipLoad ==
    /\ cPc = "load"
    /\ LoadSkipped
    /\ cPc' = "report"
    /\ UNCHANGED <<cArgs, cStore, cRunning, cLog, cRet>>
    /\ UNCHANGED <<analyzerVars, anonVars, loadVars, fileVars, validVars, rollbackVars, extractVars, reportVars>>

CoordCallLoad ==
    /\ cPc = "load"
    /\ ~LoadSkipped
    /\ Call("load", LoadStores[cStore])
    /\ UNCHANGED <<analyzerVars, anonVars, loadVars, fileVars, validVars, rollbackVars, extractVars, reportVars>>

CoordLoadExit ==
    \E outcome \in Outcomes("load") :
        /\ Return("load", outcome)
        /\ IF ~run_command(ExitCode("load", outcome))
           THEN cPc' = "done" /\ cRet' = 1 /\ UNCHANGED cStore
           ELSE IF cStore < Len(LoadStores)
           THEN cStore' = cStore + 1 /\ UNCHANGED <<cPc, cRet>>
           ELSE cPc' = "report" /\ cStore' = 1 /\ UNCHANGED cRet
        /\ UNCHANGED cArgs
        /\ UNCHANGED <<analyzerVars, anonVars, loadVars, fileVars, validVars, rollbackVars, extractVars, reportVars>>

CoordCallReport ==
    /\ cPc = "report"
    /\ Call("report", "")
    /\ UNCHANGED <<analyzerVars, anonVars, loadVars, fileVars, validVars, rollbackVars, extractVars, reportVars>>

\* a failed report is only logged
CoordReportExit ==
    \E outcome \in Outcomes("report") :
        /\ Return("report", outcome)
        /\ cPc' = "done"
        /\ cRet' = 0
        /\ UNCHANGED <<cArgs, cStore>>
        /\ UNCHANGED <<analyzerVars, anonVars, loadVars, fileVars, validVars, rollbackVars, extractVars, reportVars>>

CoordNext ==
    \/ CoordSkipExtraction \/ CoordCallExtract \/ CoordExtractExit
    \/ CoordCallAnonymize \/ CoordAnonymizeExit
    \/ CoordCallValidate \/ CoordValidateExit
    \/ CoordSkipLoad \/ CoordCallLoad \/ CoordLoadExit
    \/ CoordCallReport \/ CoordReportExit

(***************************************************************************)
(*                scripts/loaders/load_with_constraints.py                 *)
(***************************************************************************)

\* Bound: the number of rows of a staged file, and of distinct ids.
MaxRows == 2

Ids == 1..MaxRows

\* loading_order of a relational store
LoadingOrder == <<"parents", "children">>

LoadTables == Range(LoadingOrder)

Strategies == {"insert", "upsert", "merge", "replace"}

\* A table holds rows [id, val]; id is its primary key.
Row(id, val) == [id |-> id, val |-> val]
IdsOf(rows) == {r.id : r \in rows}

\* the staged file of a table: missing, or a list of row ids (val "new")
MissingFile == [exists |-> FALSE, ids |-> <<>>]
StagedFiles ==
    {MissingFile} \cup
    {[exists |-> TRUE, ids |-> f] : f \in UNION {[1..n -> Ids] : n \in 0..MaxRows}}

\* conn.autocommit left on
autocommit_on == TRUE

\* conn.autocommit = False
autocommit == FALSE

\* A connection state c = [work, committed]: a successful statement changes
\* the rows the transaction sees, and the committed rows too under autocommit.
Execute(c, table, rows) ==
    LET w == [c.work EXCEPT ![table] = rows]
    IN [work |-> w, committed |-> IF autocommit THEN w ELSE c.committed]

\* conn.rollback()
Rollback(c) == [work |-> c.committed, committed |-> c.committed]

\* conn.commit()
Commit(c) == [work |-> c.work, committed |-> c.work]

RECURSIVE InsertRows(_, _, _, _, _)
\* the loop of load_postgres_table_insert from row i on; fail_at is the row at
\* which the server reports an error other than an integrity violation (0:
\* none).  Ends with how the loop ended and the rows inserted.
InsertRows(c, table, ids, i, fail_at) ==
    IF i > Len(ids) THEN [end |-> "ok", c |-> c, rows_inserted |-> Len(ids)]
    ELSE IF i = fail_at THEN [end |-> "error", c |-> c, rows_inserted |-> i - 1]
    ELSE IF ids[i] \in IdsOf(c.work[table])
    THEN [end |-> "integrity", c |-> Rollback(c), rows_inserted |-> i - 1]
    ELSE InsertRows(Execute(c, table, c.work[table] \cup {Row(ids[i], "new")}),
                    table, ids, i + 1, fail_at)

\* an insert that reports success after an integrity violation
load_postgres_table_insert_swallowing(c, table, ids, fail_at) ==
    LET r == InsertRows(c, table, ids, 1, fail_at)
    IN [c |-> r.c,
        result |-> [table |-> table,
                    rows_loaded |-> IF r.end = "ok" THEN r.rows_inserted ELSE 0,
                    strategy |-> "insert",
                    success |-> r.end # "error"]]

load_postgres_table_insert(c, table, ids, fail_at) ==
    LET r == InsertRows(c, table, ids, 1, fail_at)
    IN [c |-> r.c,
        result |-> [table |-> table,
                    rows_loaded |-> IF r.end = "ok" THEN r.rows_inserted ELSE 0,
                    strategy |-> "insert",
                    success |-> r.end = "ok"]]

RECURSIVE UpsertRows(_, _, _, _, _)
UpsertRows(c, table, ids, i, fail_at) ==
    IF i > Len(ids) THEN [end |-> "ok", c |-> c, rows_loaded |-> Len(ids)]
    ELSE IF i = fail_at THEN [end |-> "error", c |-> c, rows_loaded |-> i - 1]
    ELSE UpsertRows(
            Execute(c, table,
                    {r \in c.work[table] : r.id # ids[i]} \cup {Row(ids[i], "new")}),
            table, ids, i + 1, fail_at)

load_postgres_table_upsert(c, table, ids, fail_at) ==
    LET r == UpsertRows(c, table, ids, 1, fail_at)
    IN [c |-> r.c,
        result |-> [table |-> table,
                    rows_loaded |-> IF r.end = "ok" THEN r.rows_loaded ELSE 0,
                    strategy |-> "upsert",
                    success |-> r.end = "ok"]]

load_postgres_table_merge(c, table, ids, fail_at) ==
    load_postgres_table_upsert(c, table, ids, fail_at)

(***************************************************************************)
(*        scripts/loaders/load_with_constraints.py: the graph target       *)
(***************************************************************************)

\* Bounds of the staged graph.
MaxGraphNodes == 2
MaxGraphRels == 1

\* the ids a graph store gives its nodes
InternalIds == 0..MaxGraphNodes

\* The nodes of sp_nodes.parquet: the k-th node carries the property id = k
\* and the internal id the source store gave it.
StagedNodes ==
    {[k \in 1..Len(ids) |-> [id |-> k, neo4j_id |-> ids[k]]] :
        ids \in {s \in UNION {[1..n -> InternalIds] : n \in 0..MaxGraphNodes} :
                    \A i, j \in 1..Len(s) : i # j => s[i] # s[j]}}

\* The relationships of sp_relationships.parquet between the nodes `nodes`,
\* by the internal ids of their ends in the source store.
StagedRels(nodes) ==
    UNION {[1..n -> [start_id : {nodes[k].neo4j_id : k \in 1..Len(nodes)},
                     end_id : {nodes[k].neo4j_id : k \in 1..Len(nodes)}]]
           : n \in 0..MaxGraphRels}

MissingGraphFiles == [exists |-> FALSE, nodes |-> <<>>, rels |-> <<>>]

\* A graph target: nodes [internal, id] and relationships [start, end]
\* between the internal ids of its nodes.
EmptyTarget == [nodes |-> {}, rels |-> {}]

\* the id the target gives a node it creates: the first one not in use
NewInternalId(t) ==
    CHOOSE x \in 0..Cardinality(t.nodes) :
        /\ x \notin {n.internal : n \in t.nodes}
        /\ \A y \in 0..(x - 1) : y \in {n.internal : n \in t.nodes}

\* MERGE (n:labels {id: $id}) SET n = {props}
MergeNode(t, node) ==
    IF \E n \in t.nodes : n.id = node.id THEN t
    ELSE [t EXCEPT !.nodes = @ \cup {[internal |-> NewInternalId(t), id |-> node.id]}]

\* MATCH (a), (b) WHERE id(a) = $start_id AND id(b) = $end_id MERGE (a)-[r]->(b)
MergeRel(t, rel) ==
    IF /\ \E a \in t.nodes : a.internal = rel.start_id
       /\ \E b \in t.nodes : b.internal = rel.end_id
    THEN [t EXCEPT !.rels = @ \cup {[start |-> rel.start_id, end |-> rel.end_id]}]
    ELSE t

RECURSIVE LoadNodes(_, _, _, _)
\* the loop over nodes_df from node i on; statement fail_at raises (0: none)
LoadNodes(t, nodes, i, fail_at) ==
    IF i > Len(nodes) THEN [ok |-> TRUE, target |-> t, nodes_loaded |-> Len(nodes)]
    ELSE IF i = fail_at THEN [ok |-> FALSE, target |-> t, nodes_loaded |-> i - 1]
    ELSE LoadNodes(MergeNode(t, nodes[i]), nodes, i + 1, fail_at)

RECURSIVE LoadRels(_, _, _, _)
\* the loop over rels_df from relationship i on
LoadRels(t, rels, i, fail_at) ==
    IF i > Len(rels) THEN [ok |-> TRUE, target |-> t, rels_loaded |-> Len(rels)]
    ELSE IF i = fail_at THEN [ok |-> FALSE, target |-> t, rels_loaded |-> i - 1]
    ELSE LoadRels(MergeRel(t, rels[i]), rels, i + 1, fail_at)

\* load_neo4j_graph: the result dictionary, the target as the statements
\* left it and the two counters as they stood when the function returned
load_neo4j_graph(t, files, fail_at) ==
    LET n == LoadNodes(t, files.nodes, 1, fail_at)
        r == IF n.ok
             THEN LoadRels(n.target, files.rels, 1,
                           IF fail_at = 0 THEN 0 ELSE fail_at - Len(files.nodes))
             ELSE [ok |-> FALSE, target |-> n.target, rels_loaded |-> 0]
    IN [target |-> r.target,
        loaded |-> [nodes |-> n.nodes_loaded, rels |-> r.rels_loaded],
        result |-> IF r.ok
                   THEN [store |-> "sp", nodes_loaded |-> n.nodes_loaded,
                         relationships_loaded |-> r.rels_loaded, success |-> TRUE]
                   ELSE [store |-> "sp", nodes_loaded |-> 0,
                         relationships_loaded |-> 0, success |-> FALSE]]

NoLoaded == [nodes |-> 0, rels |-> 0]

GraphIdle ==
    /\ gStaged = MissingGraphFiles
    /\ gTarget = EmptyTarget
    /\ neo4j = <<>>
    /\ gLoaded = NoLoaded

NoResults ==
    [tables_loaded |-> <<>>, total_rows_loaded |-> 0, success |-> TRUE,
     errors |-> 0, error |-> <<>>]

LoadIdle ==
    /\ strategy = "insert"
    /\ db0 = [t \in LoadTables |-> {}]
    /\ committed = db0
    /\ work = db0
    /\ conn = "none"
    /\ lPc = "start"
    /\ lIdx = 1
    /\ results = NoResults
    /\ didCommit = FALSE
    /\ lFiles = <<>>
    /\ GraphIdle

LoadInit ==
    /\ strategy \in Strategies
    /\ db0 \in [LoadTables -> SUBSET {Row(id, "old") : id \in Ids}]
    /\ committed = db0
    /\ work = db0
    /\ conn = "none"
    /\ lPc = "start"
    /\ lIdx = 1
    /\ results = NoResults
    /\ didCommit = FALSE
    /\ lFiles = <<>>
    /\ GraphIdle

\* get_cert_db_connection and conn.autocommit = False
LoadConnect ==
    /\ lPc = "start"
    /\ \E connected \in BOOLEAN :
         IF connected
         THEN /\ conn' = "open"
              /\ lPc' = "tables"
              /\ UNCHANGED results
         ELSE /\ conn' = "none"
              /\ lPc' = "done"
              /\ results' = [results EXCEPT !.success = FALSE, !.error = <<"connect">>]
    /\ UNCHANGED <<strategy, db0, committed, work, lIdx, didCommit, lFiles, graphVars>>
    /\ UNCHANGED <<analyzerVars, anonVars, coordVars, fileVars, validVars, rollbackVars, extractVars, reportVars>>

\* a table is passed over only when its file is missing
skip_table_if_missing(file) == ~file.exists

\* "if not parquet_file.exists(): continue" and "if len(df) == 0: continue"
skip_table(file) == ~file.exists \/ Len(file.ids) = 0

\* one pass of the loop "for table_name in loading_order"
LoadTable ==
    /\ lPc = "tables"
    /\ lIdx <= Len(LoadingOrder)
    /\ \E file \in StagedFiles, fail_at \in 0..MaxRows :
       /\
         LET table_name == LoadingOrder[lIdx]
             c == [work |-> work, committed |-> committed]
         IN IF skip_table(file)
            THEN \* skipped
                 /\ lIdx' = lIdx + 1
                 /\ UNCHANGED <<committed, work, conn, lPc, results>>
            ELSE IF strategy \notin {"insert", "upsert", "merge"}
            THEN \* ValueError: rollback, close, the outer handler
                 /\ work' = Rollback(c).work
                 /\ committed' = Rollback(c).committed
                 /\ conn' = "closed"
                 /\ lPc' = "done"
                 /\ results' = [results EXCEPT !.success = FALSE,
                                               !.error = <<"Unknown strategy", strategy>>]
                 /\ UNCHANGED lIdx
            ELSE LET r == IF strategy = "insert"
                          THEN load_postgres_table_insert(c, table_name, file.ids, fail_at)
                          ELSE IF strategy = "upsert"
                          THEN load_postgres_table_upsert(c, table_name, file.ids, fail_at)
                          ELSE load_postgres_table_merge(c, table_name, file.ids, fail_at)
                     tables_loaded == Append(results.tables_loaded, r.result)
                 IN IF r.result.success
                    THEN /\ work' = r.c.work
                         /\ committed' = r.c.committed
                         /\ results' = [results EXCEPT
                                !.tables_loaded = tables_loaded,
                                !.total_rows_loaded = @ + r.result.rows_loaded]
                         /\ lIdx' = lIdx + 1
                         /\ UNCHANGED <<conn, lPc>>
                    ELSE \* raise: rollback, close, the outer handler
                         /\ work' = Rollback(r.c).work
                         /\ committed' = Rollback(r.c).committed
                         /\ conn' = "closed"
                         /\ lPc' = "done"
                         /\ results' = [results EXCEPT
                                !.tables_loaded = tables_loaded,
                                !.errors = @ + 1,
                                !.success = FALSE,
                                !.error = <<"Failed to load", table_name>>]
                         /\ UNCHANGED lIdx
       /\ lFiles' = Append(lFiles, file)
    /\ UNCHANGED <<strategy, db0, didCommit, graphVars>>
    /\ UNCHANGED <<analyzerVars, anonVars, coordVars, fileVars, validVars, rollbackVars, extractVars, reportVars>>

\* after the loop: conn.commit(), conn.close(), then load-manifest.json is
\* written (manifest_written: the file could be created)
LoadCommit ==
    /\ lPc = "tables"
    /\ lIdx > Len(LoadingOrder)
    /\ LET c == Commit([work |-> work, committed |-> committed])
       IN work' = c.work /\ committed' = c.committed
    /\ didCommit' = TRUE
    /\ conn' = "closed"
    /\ lPc' = "done"
    /\ \E manifest_written \in BOOLEAN :
         results' = IF manifest_written THEN results
                    ELSE [results EXCEPT !.success = FALSE, !.error = <<"manifest">>]
    /\ UNCHANGED <<strategy, db0, lIdx, lFiles, graphVars>>
    /\ UNCHANGED <<analyzerVars, anonVars, coordVars, fileVars, validVars, rollbackVars, extractVars, reportVars>>

LoadNext == LoadConnect \/ LoadTable \/ LoadCommit

\* the loader started on the store sp
GraphInit ==
    /\ strategy = "insert"
    /\ db0 = [t \in LoadTables |-> {}]
    /\ committed = db0
    /\ work = db0
    /\ conn = "none"
    /\ lPc = "start"
    /\ lIdx = 1
    /\ results = NoResults
    /\ didCommit = FALSE
    /\ lFiles = <<>>
    /\ neo4j = <<>>
    /\ gLoaded = NoLoaded
    /\ gTarget \in {EmptyTarget,
                    [nodes |-> {[internal |-> 0, id |-> 0]}, rels |-> {}],
                    [nodes |-> {[internal |-> 0, id |-> 1]}, rels |-> {}]}
    /\ \/ gStaged = MissingGraphFiles
       \/ \E nodes \in StagedNodes : \E rels \in StagedRels(nodes) :
             gStaged = [exists |-> TRUE, nodes |-> nodes, rels |-> rels]

\* get_cert_db_connection(store, ...) for the store sp
GraphConnect ==
    /\ lPc = "start"
    /\ \E connected \in BOOLEAN :
         IF connected
         THEN /\ conn' = "open"
              /\ lPc' = "graph"
              /\ UNCHANGED results
         ELSE /\ conn' = "none"
              /\ lPc' = "done"
              /\ results' = [results EXCEPT !.success = FALSE, !.error = <<"connect">>]
    /\ UNCHANGED <<strategy, db0, committed, work, lIdx, didCommit, lFiles, graphVars>>
    /\ UNCHANGED <<analyzerVars, anonVars, coordVars, fileVars, validVars, rollbackVars, extractVars, reportVars>>

\* the branch "if store == 'sp'": the two files are looked for, the graph is
\* loaded, the driver is closed and load-manifest.json is written; an
\* exception goes to the outer handler, which rolls back relational
\* connections only
GraphLoad ==
    /\ lPc = "graph"
    /\ IF ~gStaged.exists
       THEN \* FileNotFoundError
            /\ results' = [results EXCEPT !.success = FALSE, !.error = <<"files">>]
            /\ UNCHANGED <<conn, graphVars>>
       ELSE \E fail_at \in 0..(Len(gStaged.nodes) + Len(gStaged.rels)),
               manifest_written \in BOOLEAN :
              LET r == load_neo4j_graph(gTarget, gStaged, fail_at)
                  loaded == [results EXCEPT
                      !.total_rows_loaded =
                          r.result.nodes_loaded + r.result.relationships_loaded,
                      !.success = r.result.success]
              IN /\ neo4j' = <<r.result>>
                 /\ gTarget' = r.target
                 /\ gLoaded' = r.loaded
                 /\ conn' = "closed"
                 /\ results' = IF manifest_written THEN loaded
                               ELSE [loaded EXCEPT !.success = FALSE,
                                                   !.error = <<"manifest">>]
                 /\ UNCHANGED gStaged
    /\ lPc' = "done"
    /\ UNCHANGED <<strategy, db0, committed, work, lIdx, didCommit, lFiles>>
    /\ UNCHANGED <<analyzerVars, anonVars, coordVars, fileVars, validVars, rollbackVars, extractVars, reportVars>>

GraphNext == GraphConnect \/ GraphLoad

RECURSIVE load_tables(_, _, _, _)
\* A whole run of the loop over loading_order from table i on, on the staged
\* files `files` with the strategy `how`, the server reporting no error other
\* than integrity violations: the connection state it leaves (committed
\* after the last table, rolled back at a failed one) and its success.
load_tables(c, files, how, i) ==
    IF i > Len(LoadingOrder) THEN [c |-> Commit(c), success |-> TRUE]
    ELSE IF skip_table(files[i]) THEN load_tables(c, files, how, i + 1)
    ELSE IF how \notin {"insert", "upsert", "merge"}
    THEN [c |-> Rollback(c), success |-> FALSE]
    ELSE LET r == IF how = "insert"
                  THEN load_postgres_table_insert(c, LoadingOrder[i], files[i].ids, 0)
                  ELSE IF how = "upsert"
                  THEN load_postgres_table_upsert(c, LoadingOrder[i], files[i].ids, 0)
                  ELSE load_postgres_table_merge(c, LoadingOrder[i], files[i].ids, 0)
         IN IF r.result.success
            THEN load_tables(r.c, files, how, i + 1)
            ELSE [c |-> Rollback(r.c), success |-> FALSE]

(***************************************************************************)
(*             scripts/anonymize.py: the dataset, file by file             *)
(***************************************************************************)

\* Bound of the staged tables explored.
MaxFileRows == 2

FloatValue(chars) == [t |-> "float", s |-> chars]

\* Column names, character by character.
idCol == <<"i", "d">>
pidCol == <<"p", "_", "i", "d">>
nameCol == <<"n", "a", "m", "e">>
emailCol == <<"E", "m", "a", "i", "l">>
valueCol == <<"v", "a", "l", "u", "e">>
ColumnNames == {idCol, pidCol, nameCol, emailCol, valueCol}

\* str.lower() on the letters that occur
LowerChar(c) ==
    IF c = "E" THEN "e" ELSE IF c = "P" THEN "p" ELSE IF c = "I" THEN "i"
    ELSE IF c = "D" THEN "d" ELSE c

Lower(str) == [i \in 1..Len(str) |-> LowerChar(str[i])]

\* re.search(pattern, field_name, re.IGNORECASE) for a pattern without
\* metacharacters: the pattern occurs somewhere in the name, letter case aside
re_search(pattern, field_name) ==
    \E i \in 1..(Len(field_name) - Len(pattern) + 1) :
        SubSeq(Lower(field_name), i, i + Len(pattern) - 1) = Lower(pattern)

\* one entry of the rules file
FileRule(name, pattern, strategy_, faker_type) ==
    [name |-> name,
     field_pattern |-> {c \in ColumnNames : re_search(pattern, c)},
     strategy |-> strategy_, faker_type |-> faker_type, hash_algorithm |-> "sha256"]

\* the rules a rules file may list
RulePool == {
    FileRule(<<"key_rule">>, <<"i", "d">>, "hash", ""),
    FileRule(<<"name_rule">>, <<"n", "a", "m", "e">>, "faker", "name"),
    FileRule(<<"email_rule">>, <<"e", "m", "a", "i", "l">>, "faker", "email"),
    FileRule(<<"fk_rule">>, <<"P", "_", "I", "D">>, "nullify", ""),
    FileRule(<<"keep_rule">>, <<"_", "i", "d">>, "preserve", "") }

\* rules_config.get('rules', []): an ordered list of at most two rules
RuleLists ==
    {<<>>} \cup {<<r>> : r \in RulePool}
           \cup {<<p[1], p[2]>> : p \in {q \in RulePool \X RulePool : q[1] # q[2]}}

\* pd.read_parquet on an integer column: int64 when no value is missing,
\* float64 (with NaN for the missing values) otherwise
IntColumn(vals) ==
    IF \E i \in 1..Len(vals) : vals[i] = 0
    THEN [i \in 1..Len(vals) |->
            IF vals[i] = 0 THEN NaN ELSE FloatValue(<<DigitChars[vals[i] + 1], ".0">>)]
    ELSE [i \in 1..Len(vals) |-> IntValue(<<DigitChars[vals[i] + 1]>>)]

\* the staged parent table P(id, name) or P(id, Email)
ParentFiles ==
    {[name |-> "P",
      columns |-> <<[name |-> idCol, cells |-> IntColumn([i \in 1..n |-> i])],
                    [name |-> c, cells |-> [i \in 1..n |-> StrValue(<<"a", "@", "x.org">>)]]>>]
     : n \in {MaxFileRows}, c \in {nameCol, emailCol}}

\* the staged child table C(p_id, value); p_id 0 stands for a missing value
ChildFiles ==
    {[name |-> "C",
      columns |-> <<[name |-> pidCol, cells |-> IntColumn(fk)],
                    [name |-> valueCol, cells |-> IntColumn([i \in 1..Len(fk) |-> 7])]>>]
     : fk \in UNION {[1..n -> 0..MaxFileRows] : n \in 1..MaxFileRows}}

\* list(input_path.glob("*.parquet")): the files present, in directory order
StagedDirs ==
    {<<>>} \cup {<<f>> : f \in ParentFiles \cup ChildFiles}
           \cup {<<f, g>> : f \in ParentFiles, g \in ChildFiles}
           \cup {<<g, f>> : f \in ParentFiles, g \in ChildFiles}

\* the value the Faker provider returns for row i of a column
FakeFor(faker_type, fakes, i) ==
    IF fakes[i] \in FakeValues(faker_type) THEN fakes[i]
    ELSE CHOOSE v \in FakeValues(faker_type) : TRUE

RECURSIVE ApplyColumn(_, _, _, _, _, _, _)
\* df[column].apply(lambda x: apply_anonymization_rule(x, rule, ...)), from
\* row i on; acc holds the cells already transformed
ApplyColumn(cells, rule, m, salt_, fakes, i, acc) ==
    IF i > Len(cells) THEN [cells |-> acc, map |-> m]
    ELSE LET r == apply_anonymization_rule(cells[i], rule, m, salt_,
                                           FakeFor(rule.faker_type, fakes, i))
         IN ApplyColumn(cells, rule, r.map, salt_, fakes, i + 1, Append(acc, r.out))

RECURSIVE ApplyColumns(_, _, _, _, _, _, _)
\* the loop "for column in df.columns" of anonymize_parquet_file
ApplyColumns(columns, rules_, m, salt_, fakes, i, acc) ==
    IF i > Len(columns) THEN acc
    ELSE LET rule == match_field_to_rule(columns[i].name, rules_)
         IN IF rule = NoRule
            THEN ApplyColumns(columns, rules_, m, salt_, fakes, i + 1,
                    [acc EXCEPT !.columns = Append(@, columns[i])])
            ELSE LET r == ApplyColumn(columns[i].cells, rule, acc.map, salt_, fakes, 1, <<>>)
                 IN ApplyColumns(columns, rules_, m, salt_, fakes, i + 1,
                      [columns |-> Append(acc.columns,
                                     [name |-> columns[i].name, cells |-> r.cells]),
                       map |-> r.map,
                       anonymized_fields |-> Append(acc.anonymized_fields, columns[i].name),
                       fields_by_rule |-> Append(acc.fields_by_rule,
                                     [rule |-> rule.name, field |-> columns[i].name])])

RECURSIVE TextLen(_)
\* len(str_value)
TextLen(str) == IF str = <<>> THEN 0 ELSE Len(Head(str)) + TextLen(Tail(str))

\* str_value.endswith(suffix)
EndsWith(str, suffix) ==
    Len(str) >= Len(suffix) /\ SubSeq(str, Len(str) - Len(suffix) + 1, Len(str)) = suffix

\* the faker types whose name contains 'name'
NameTypes == {"name", "first_name", "last_name", "user_name"}

\* the heuristic check_pii_leaks applies to one sampled value
LooksLeaked(rule, value) ==
    IF rule.strategy = "faker" /\ rule.faker_type = "email"
    THEN "@" \in Range(value.s) /\ ~EndsWith(value.s, <<".", "example.org">>)
    ELSE IF rule.strategy = "faker" /\ rule.faker_type \in NameTypes
    THEN TextLen(value.s) < 3
    ELSE FALSE

\* check_pii_leaks: the columns of the transformed frame flagged as leaking
check_pii_leaks(columns, rules_) ==
    {columns[i].name : i \in
        {j \in 1..Len(columns) :
            LET rule == match_field_to_rule(columns[j].name, rules_)
            IN /\ rule # NoRule
               /\ rule.strategy # "preserve"
               /\ \E k \in 1..Len(columns[j].cells) :
                     /\ ~isna(columns[j].cells[k])
                     /\ LooksLeaked(rule, columns[j].cells[k])}}

\* anonymize_parquet_file on a file that could be read
anonymize_parquet_file(file, rules_, m, salt_, fakes) ==
    LET r == ApplyColumns(file.columns, rules_, m, salt_, fakes, 1,
                 [columns |-> <<>>, map |-> m, anonymized_fields |-> <<>>,
                  fields_by_rule |-> <<>>])
    IN [output |-> [name |-> file.name, columns |-> r.columns],
        map |-> r.map,
        result |-> [file |-> file.name, success |-> TRUE,
                    anonymized_fields |-> r.anonymized_fields,
                    fields_by_rule |-> r.fields_by_rule,
                    pii_leaks |-> check_pii_leaks(r.columns, rules_)]]

\* the results dictionary anonymize_dataset starts from
NoReport == [success |-> TRUE, files_processed |-> <<>>, pii_leaks_detected |-> {},
             pii_leak_check |-> "", errors |-> <<>>, error |-> ""]

\* a consistency map an earlier run left on disk
PriorMap ==
    MapSet(EmptyMap, <<"name_rule">>, StrValue(<<"a", "@", "x.org">>),
           StrValue(<<"Zed Roe">>))

FileIdle ==
    /\ fRules = <<>>
    /\ staged = <<>>
    /\ written = <<>>
    /\ fIdx = 1
    /\ report = NoReport

FileInit ==
    /\ fRules \in RuleLists
    /\ staged \in StagedDirs
    /\ written = <<>>
    /\ fIdx = 1
    /\ report = NoReport
    /\ salt \in {<<>>, <<"s3cret">>}
    /\ mapFile \in {NoFile, [kind |-> "complete", content |-> PriorMap]}
    /\ mappings = EmptyMap
    /\ anPc = "idle"
    /\ runs = 0
    /\ lastCell = NoCell
    /\ hist = {}
    /\ storedFor = {}

\* a start that goes on without a salt
salt_missing_ignored(salt_) == FALSE

\* "if not salt": os.getenv gave None or the empty string
salt_missing(salt_) == salt_ = <<>>

\* the faker type of the first column of the file a faker rule governs
FileFakerType(file, rules_) ==
    LET S == {j \in 1..Len(file.columns) :
                 match_field_to_rule(file.columns[j].name, rules_).strategy = "faker"}
    IN IF S = {} THEN ""
       ELSE match_field_to_rule(
                file.columns[CHOOSE j \in S : \A k \in S : j <= k].name, rules_).faker_type

\* anonymize_dataset up to the file loop: fRules, salt and stored map are read
FileStart ==
    /\ anPc = "idle"
    /\ IF salt_missing(salt)
       THEN /\ anPc' = "done"
            /\ report' = [report EXCEPT !.success = FALSE, !.error = "salt not set"]
            /\ UNCHANGED mappings
       ELSE IF mapFile.kind = "partial"
       THEN /\ anPc' = "done"
            /\ report' = [report EXCEPT !.success = FALSE, !.error = "JSONDecodeError"]
            /\ UNCHANGED mappings
       ELSE /\ anPc' = "running"
            /\ mappings' = mapFile.content
            /\ UNCHANGED report
    /\ UNCHANGED <<salt, mapFile, runs, lastCell, hist, storedFor>>
    /\ UNCHANGED <<fRules, staged, written, fIdx>>
    /\ UNCHANGED <<analyzerVars, coordVars, loadVars, validVars, rollbackVars, extractVars, reportVars>>

\* one turn of the loop "for parquet_file in parquet_files"; readable is
\* FALSE when anonymize_parquet_file raised on reading the file
FileAnonymize ==
    /\ anPc = "running"
    /\ fIdx <= Len(staged)
    /\ \E readable \in BOOLEAN :
       \E fakes \in [1..MaxFileRows -> FakeValues(FileFakerType(staged[fIdx], fRules))] :
         IF readable
         THEN LET r == anonymize_parquet_file(staged[fIdx], fRules, mappings, salt, fakes)
              IN /\ written' = Append(written, r.output)
                 /\ mappings' = r.map
                 /\ report' = [report EXCEPT
                        !.files_processed = Append(@, r.result),
                        !.pii_leaks_detected = @ \cup r.result.pii_leaks]
         ELSE /\ report' = [report EXCEPT
                        !.files_processed = Append(@, [file |-> staged[fIdx].name,
                                                       success |-> FALSE]),
                        !.errors = Append(@, staged[fIdx].name),
                        !.success = FALSE]
              /\ UNCHANGED <<written, mappings>>
    /\ fIdx' = fIdx + 1
    /\ UNCHANGED <<salt, mapFile, anPc, runs, lastCell, hist, storedFor>>
    /\ UNCHANGED <<fRules, staged>>
    /\ UNCHANGED <<analyzerVars, coordVars, loadVars, validVars, rollbackVars, extractVars, reportVars>>

\* a verdict that reports the leak and leaves success as it was
judge_leaks_keeping_success(results_) ==
    IF results_.pii_leaks_detected # {}
    THEN [results_ EXCEPT !.pii_leak_check = "FAILED"]
    ELSE [results_ EXCEPT !.pii_leak_check = "PASSED"]

\* "Check for PII leaks" of anonymize_dataset
judge_leaks(results_) ==
    IF results_.pii_leaks_detected # {}
    THEN [results_ EXCEPT !.success = FALSE, !.pii_leak_check = "FAILED"]
    ELSE [results_ EXCEPT !.pii_leak_check = "PASSED"]

\* after the loop: the consistency map is saved, the leak list is judged
FileFinish ==
    /\ anPc = "running"
    /\ fIdx > Len(staged)
    /\ mapFile' = json_dump(mappings)
    /\ anPc' = "done"
    /\ report' = IF json_dump(mappings).kind = "partial"
                 THEN [report EXCEPT !.success = FALSE, !.error = "TypeError"]
                 ELSE judge_leaks(report)
    /\ UNCHANGED <<salt, mappings, runs, lastCell, hist, storedFor>>
    /\ UNCHANGED <<fRules, staged, written, fIdx>>
    /\ UNCHANGED <<analyzerVars, coordVars, loadVars, validVars, rollbackVars, extractVars, reportVars>>

FileNext == FileStart \/ FileAnonymize \/ FileFinish

(***************************************************************************)
(*            scripts/anonymize.py: sequences of tokenize calls            *)
(***************************************************************************)

\* Bound of the number of anonymize_tokenize calls explored.
MaxCalls == 3

\* the names of the tokenize rules of a rules file
TokenRuleNames == {<<"tok">>, <<"tok", ":", "b">>, <<"other">>}

\* the originals the tokenized columns hold
TokenOriginals ==
    {None, StrValue(<<"1">>), IntValue(<<"1">>), StrValue(<<"2">>), StrValue(<<"b", ":", "1">>)}

TokenInit ==
    /\ salt = <<"s3cret">>
    /\ mapFile = NoFile
    /\ mappings = EmptyMap
    /\ anPc = "running"
    /\ runs = 0
    /\ lastCell = NoCell
    /\ hist = {}
    /\ storedFor = {}

\* one cell of a column governed by a tokenize rule
TokenCall ==
    /\ runs < MaxCalls
    /\ \E rule_name \in TokenRuleNames :
       \E value \in TokenOriginals :
         LET r == anonymize_tokenize(value, mappings, rule_name)
         IN /\ mappings' = r.map
            /\ hist' = IF isna(value) THEN hist
                       ELSE hist \cup {[rule |-> rule_name, original |-> value,
                                        out |-> r.out]}
            /\ storedFor' = IF r.map # mappings
                            THEN storedFor \cup {[rule |-> rule_name, original |-> value]}
                            ELSE storedFor
    /\ runs' = runs + 1
    /\ UNCHANGED <<salt, mapFile, anPc, lastCell>>
    /\ UNCHANGED <<analyzerVars, coordVars, loadVars, fileVars, validVars, rollbackVars, extractVars, reportVars>>

\* the run ends and the next one starts: the map is saved and read back
TokenReload ==
    /\ mappings # EmptyMap
    /\ mapFile # json_dump(mappings)
    /\ mapFile' = json_dump(mappings)
    /\ mappings' = json_dump(mappings).content
    /\ UNCHANGED <<salt, anPc, runs, lastCell, hist, storedFor>>
    /\ UNCHANGED <<analyzerVars, coordVars, loadVars, fileVars, validVars, rollbackVars, extractVars, reportVars>>

TokenNext == TokenCall \/ TokenReload

(***************************************************************************)
(*                scripts/validators/validate_integrity.py                 *)
(***************************************************************************)

\* Bound of the datasets explored: rows per dataset.
MaxCells == 2

\* A cell of a numeric DataFrame column: a missing value (NaN) or a number.
Missing == <<>>
Num(n) == <<n>>

\* df[column].isnull().sum()
null_count(cells) == Cardinality({i \in 1..Len(cells) : cells[i] = Missing})

\* the dtype pandas gives an integer column: int64, float64 once a value is
\* missing
dtype(cells) == IF null_count(cells) > 0 THEN "float64" ELSE "int64"

\* set(df[column].dropna().unique())
dropna_unique(cells) == {cells[i] : i \in 1..Len(cells)} \ {Missing}

\* str[i:].startswith(sub), i counted from 1
StartsAt(str, sub, i) ==
    i + Len(sub) - 1 <= Len(str) /\ SubSeq(str, i, i + Len(sub) - 1) = sub

\* sub in str
Contains(sub, str) == \E i \in 1..(Len(str) + 1) : StartsAt(str, sub, i)

RECURSIVE replace(_, _, _)
\* str.replace(old, new): every occurrence, left to right (old is not empty)
replace(str, old, new) ==
    IF str = <<>> THEN <<>>
    ELSE IF StartsAt(str, old, 1)
    THEN new \o replace(SubSeq(str, Len(old) + 1, Len(str)), old, new)
    ELSE <<Head(str)>> \o replace(Tail(str), old, new)

RECURSIVE Flatten(_)
\* the concatenation of a list of lists
Flatten(ss) == IF ss = <<>> THEN <<>> ELSE Head(ss) \o Flatten(Tail(ss))

\* column and dataset names (file stems store_table) of the data directory
aIdCol == <<"a", "_", "i", "d">>
cIdCol == <<"c", "_", "i", "d">>
xAs == <<"x", "_", "a", "s">>
xBs == <<"x", "_", "b", "s">>
xGas == <<"x", "_", "g", "a", "s">>

\* 'column in df.columns'
HasColumn(df, column) == \E j \in 1..Len(df.columns) : df.columns[j].name = column

\* df[column]
Cells(df, column) ==
    df.columns[CHOOSE j \in 1..Len(df.columns) : df.columns[j].name = column].cells

\* the staged table x_as(id)
ParentDatasets ==
    {[name |-> xAs, columns |-> <<[name |-> idCol, cells |-> ids]>>]
     : ids \in [1..MaxCells -> {Missing, Num(-1), Num(1)}]}

\* the staged table x_bs(a_id, c_id); no dataset is named after c_id
ChildDatasets ==
    {[name |-> xBs,
      columns |-> <<[name |-> aIdCol, cells |-> fk],
                    [name |-> cIdCol, cells |-> [i \in 1..MaxCells |-> Num(3)]]>>]
     : fk \in [1..MaxCells -> {Missing, Num(1), Num(3)}]}

\* the staged table x_gas(id), whose name also contains "as"
OtherDatasets ==
    {[name |-> xGas, columns |-> <<[name |-> idCol, cells |-> [i \in 1..MaxCells |-> Num(3)]]>>]}

\* load_parquet_files: the readable files of the directory keyed by stem, in
\* the order glob lists them
DataDirs ==
    LET pool == ParentDatasets \cup ChildDatasets \cup OtherDatasets
        seqs == UNION {[1..n -> pool] : n \in 0..3}
    IN {ds \in seqs : \A i, j \in 1..Len(ds) : i # j => ds[i].name # ds[j].name}

\* the foreign keys a schema analysis document declares (none when the file
\* is absent)
Manifests ==
    {<<>>,
     <<[table |-> xBs, column |-> cIdCol, references |-> xAs],
       [table |-> xBs, column |-> aIdCol, references |-> xGas]>>}

\* validation-rules.yaml; readable is FALSE when the file cannot be opened
NoRules == [readable |-> TRUE, business_rules |-> <<>>, completeness_rules |-> <<>>]

BusinessRule(condition) ==
    [name |-> "br", store |-> <<"x">>, table |-> <<"b", "s">>,
     condition |-> condition, severity |-> "ERROR"]

CompletenessRule(fields, severity) ==
    [name |-> "cr", store |-> <<"x">>, table |-> <<"b", "s">>,
     required_fields |-> fields, severity |-> severity]

RuleFiles ==
    {[NoRules EXCEPT !.readable = FALSE],
     NoRules,
     [NoRules EXCEPT !.business_rules = <<BusinessRule("None")>>],
     [NoRules EXCEPT !.completeness_rules = <<CompletenessRule(<<aIdCol>>, "ERROR")>>],
     [NoRules EXCEPT !.business_rules = <<BusinessRule("a_id >= 1")>>,
                     !.completeness_rules = <<CompletenessRule(<<aIdCol, nameCol>>, "WARNING")>>]}

\* the result dictionary of one family, from the outcome of each check: a
\* check passed or failed, and left an error, a warning or nothing
FamilyResults(outcomes) ==
    LET CountedPassed(o) == o.passed
        CountedFailed(o) == o.failed
        HasError(o) == o.error # <<>>
        HasWarning(o) == o.warning # <<>>
        errs == SelectSeq(outcomes, HasError)
        warns == SelectSeq(outcomes, HasWarning)
    IN [checks_run |-> Len(outcomes),
        checks_passed |-> Len(SelectSeq(outcomes, CountedPassed)),
        checks_failed |-> Len(SelectSeq(outcomes, CountedFailed)),
        errors |-> [i \in 1..Len(errs) |-> errs[i].error[1]],
        warnings |-> [i \in 1..Len(warns) |-> warns[i].warning[1]]]

\* What one check does to the counters of its family: checks_run += 1 and
\* "checks_passed += 1"
Passed == [passed |-> TRUE, failed |-> FALSE, error |-> <<>>, warning |-> <<>>]

\* "checks_failed += 1" and errors.append(e)
FailedWith(e) == [passed |-> FALSE, failed |-> TRUE, error |-> <<e>>, warning |-> <<>>]

\* a warning branch that appends the warning and forgets checks_passed += 1
PassedWith_uncounted(w) ==
    [passed |-> FALSE, failed |-> FALSE, error |-> <<>>, warning |-> <<w>>]

\* warnings.append(w) and "checks_passed += 1"
PassedWith(w) == [passed |-> TRUE, failed |-> FALSE, error |-> <<>>, warning |-> <<w>>]

\* validate_schema: one check per column of every dataset named store_table
validate_schema(dsets, schema_analysis) ==
    LET Named(df) == Contains(<<"_">>, df.name)
        checked == SelectSeq(dsets, Named)
        Check(df, j) ==
            IF null_count(df.columns[j].cells) > 0
            THEN PassedWith([check |-> "schema_validation", table |-> df.name,
                             column |-> df.columns[j].name,
                             nulls |-> null_count(df.columns[j].cells),
                             severity |-> "WARNING"])
            ELSE Passed
    IN FamilyResults(Flatten([i \in 1..Len(checked) |->
                                [j \in 1..Len(checked[i].columns) |-> Check(checked[i], j)]]))

\* orphaned = fk_values - referenced_pks, with NaN counted as a value
orphaned_with_nulls(fk_cells, pk_cells) ==
    {fk_cells[i] : i \in 1..Len(fk_cells)} \ dropna_unique(pk_cells)

\* orphaned = fk_values - referenced_pks
orphaned(fk_cells, pk_cells) == dropna_unique(fk_cells) \ dropna_unique(pk_cells)

\* list(orphaned)[:5], as the set of the values listed
sample_orphaned(values) ==
    IF Cardinality(values) <= 5 THEN values
    ELSE CHOOSE s \in SUBSET values : Cardinality(s) = 5

\* validate_referential_integrity: one check per column named *_id
validate_referential_integrity(dsets, schema_analysis) ==
    LET WithId(df) == HasColumn(df, idCol)
        available_pks == SelectSeq(dsets, WithId)
        Check(df, j) ==
            LET fk_column == df.columns[j].name
                referenced_table_guess == replace(fk_column, <<"_", "i", "d">>, <<"s">>)
                Matches(pk) == Contains(referenced_table_guess, pk.name)
                matching_datasets == SelectSeq(available_pks, Matches)
                lost == orphaned(df.columns[j].cells,
                                 Cells(Head(matching_datasets), idCol))
            IN IF matching_datasets = <<>> THEN Passed
               ELSE IF lost # {}
               THEN FailedWith([check |-> "referential_integrity", table |-> df.name,
                                column |-> fk_column,
                                referenced_table |-> Head(matching_datasets).name,
                                count |-> Cardinality(lost),
                                severity |-> "ERROR",
                                sample_orphaned |-> sample_orphaned(lost)])
               ELSE Passed
        FkColumns(df) ==
            LET IsFk(j) == EndsWith(df.columns[j].name, <<"_", "i", "d">>)
                           /\ df.columns[j].name # idCol
            IN SelectSeq([j \in 1..Len(df.columns) |-> j], IsFk)
    IN FamilyResults(Flatten([i \in 1..Len(dsets) |->
                                [k \in 1..Len(FkColumns(dsets[i])) |->
                                    Check(dsets[i], FkColumns(dsets[i])[k])]]))

\* f"{store}_{table}" if store and table else None (<<>> for None)
RuleDataset(rule) ==
    IF rule.store # <<>> /\ rule.table # <<>>
    THEN rule.store \o <<"_">> \o rule.table
    ELSE <<>>

\* 'dataset_name in datasets'
Loaded(dsets, dataset_name) == \E i \in 1..Len(dsets) : dsets[i].name = dataset_name

\* datasets[dataset_name]
Dataset(dsets, dataset_name) ==
    dsets[CHOOSE i \in 1..Len(dsets) : dsets[i].name = dataset_name]

\* validate_business_rules: one check per rule whose dataset is loaded; the
\* condition is not evaluated, a rule without condition raises on "in"
validate_business_rules(dsets, business_rules) ==
    LET Applies(rule) == RuleDataset(rule) # <<>> /\ Loaded(dsets, RuleDataset(rule))
        applied == SelectSeq(business_rules, Applies)
        Check(rule) ==
            IF rule.condition = "None"
            THEN FailedWith([check |-> "business_rule", rule |-> rule.name,
                             severity |-> "ERROR"])
            ELSE Passed
    IN FamilyResults([i \in 1..Len(applied) |-> Check(applied[i])])

\* validate_completeness: one check per required field of every rule whose
\* dataset is loaded
validate_completeness(dsets, completeness_rules) ==
    LET Applies(rule) == RuleDataset(rule) # <<>> /\ Loaded(dsets, RuleDataset(rule))
        applied == SelectSeq(completeness_rules, Applies)
        Check(rule, field) ==
            LET df == Dataset(dsets, RuleDataset(rule))
                entry == [check |-> "completeness", rule |-> rule.name,
                          table |-> df.name, field |-> field]
            IN IF ~HasColumn(df, field)
               THEN FailedWith(entry @@ [missing |-> TRUE, severity |-> "ERROR"])
               ELSE IF null_count(Cells(df, field)) > 0
               THEN IF rule.severity = "ERROR"
                    THEN FailedWith(entry @@ [nulls |-> null_count(Cells(df, field)),
                                              severity |-> rule.severity])
                    ELSE PassedWith(entry @@ [nulls |-> null_count(Cells(df, field)),
                                              severity |-> rule.severity])
               ELSE Passed
    IN FamilyResults(Flatten([i \in 1..Len(applied) |->
                                [k \in 1..Len(applied[i].required_fields) |->
                                    Check(applied[i], applied[i].required_fields[k])]]))

\* df['id'].duplicated().sum(): the rows repeating an earlier value (NaN
\* repeats NaN)
duplicate_ids(cells) ==
    Cardinality({i \in 1..Len(cells) : \E j \in 1..(i - 1) : cells[j] = cells[i]})

\* (df['id'] < 0).sum()
negative_ids(cells) ==
    Cardinality({i \in 1..Len(cells) : cells[i] # Missing /\ cells[i][1] < 0})

\* validate_data_quality: two checks per dataset with an id column
validate_data_quality(dsets, data_quality_rules) ==
    LET WithId(df) == HasColumn(df, idCol)
        checked == SelectSeq(dsets, WithId)
        Duplicates(df) ==
            IF duplicate_ids(Cells(df, idCol)) > 0
            THEN FailedWith([check |-> "data_quality", table |-> df.name,
                             duplicates |-> duplicate_ids(Cells(df, idCol)),
                             severity |-> "ERROR"])
            ELSE Passed
        Negatives(df) ==
            IF negative_ids(Cells(df, idCol)) > 0
            THEN FailedWith([check |-> "data_quality", table |-> df.name,
                             negatives |-> negative_ids(Cells(df, idCol)),
                             severity |-> "ERROR"])
            ELSE Passed
    IN FamilyResults(Flatten([i \in 1..Len(checked) |->
                                <<Duplicates(checked[i]), Negatives(checked[i])>>]))

Families ==
    <<"schema_validation", "referential_integrity", "business_rules",
      "completeness", "data_quality">>

\* the initial results dictionary of validate_integrity
NoValidation ==
    [overall_status |-> "PENDING", checks |-> <<>>,
     total_checks |-> 0, total_passed |-> 0, total_failed |-> 0, total_warnings |-> 0,
     errors |-> <<>>, warnings |-> <<>>, success |-> TRUE, error |-> ""]

RECURSIVE Aggregate(_, _)
\* "results['checks'][family] = ...; results['total_checks'] += ..." for the
\* families in the order they run
Aggregate(res, fams) ==
    IF fams = <<>> THEN res
    ELSE Aggregate([res EXCEPT
                      !.checks = Append(@, Head(fams)),
                      !.total_checks = @ + Head(fams).checks_run,
                      !.total_passed = @ + Head(fams).checks_passed,
                      !.total_failed = @ + Head(fams).checks_failed,
                      !.warnings = @ \o Head(fams).warnings,
                      !.errors = @ \o Head(fams).errors],
                   Tail(fams))

\* a status that lets warnings hide the failed checks
overall_status_warnings_first(total_failed, total_warnings) ==
    IF total_warnings > 0 THEN "PASSED_WITH_WARNINGS"
    ELSE IF total_failed > 0 THEN "FAILED"
    ELSE "PASSED"

\* "Determine overall status"
overall_status(total_failed, total_warnings) ==
    IF total_failed > 0 THEN "FAILED"
    ELSE IF total_warnings > 0 THEN "PASSED_WITH_WARNINGS"
    ELSE "PASSED"

\* json.dump(results) succeeds unless an entry holds a numpy int64: the
\* values sample_orphaned lists of a column without missing value
Serializable(dsets, res) ==
    \A i \in 1..Len(res.errors) :
        res.errors[i].check = "referential_integrity" =>
            dtype(Cells(Dataset(dsets, res.errors[i].table), res.errors[i].column)) # "int64"

ValidInit ==
    /\ \E ds \in DataDirs : datasets = ds
    /\ manifest \in Manifests
    /\ vRules \in RuleFiles
    /\ vPc = "input"
    /\ vResults = NoValidation
    /\ vReport = "none"

\* validate_integrity, from loading the data to the report
ValidMain ==
    /\ vPc = "input"
    /\ vPc' = "done"
    /\ IF datasets = <<>>
       THEN /\ vResults' = [NoValidation EXCEPT !.success = FALSE,
                                             !.overall_status = "FAILED",
                                             !.error = "No Parquet files found"]
            /\ UNCHANGED vReport
       ELSE IF ~vRules.readable
       THEN /\ vResults' = [NoValidation EXCEPT !.success = FALSE,
                                             !.overall_status = "FAILED",
                                             !.error = "FileNotFoundError"]
            /\ UNCHANGED vReport
       ELSE LET summed == Aggregate(NoValidation,
                             <<validate_schema(datasets, manifest),
                               validate_referential_integrity(datasets, manifest),
                               validate_business_rules(datasets, vRules.business_rules),
                               validate_completeness(datasets, vRules.completeness_rules),
                               validate_data_quality(datasets, <<>>)>>)
                counted == [summed EXCEPT !.total_warnings = Len(summed.warnings)]
                status == overall_status(counted.total_failed, counted.total_warnings)
                final == [counted EXCEPT !.overall_status = status,
                                         !.success = (status # "FAILED")]
            IN IF Serializable(datasets, final)
               THEN vResults' = final /\ vReport' = "complete"
               ELSE /\ vResults' = [final EXCEPT !.success = FALSE,
                                                 !.overall_status = "FAILED",
                                                 !.error = "TypeError"]
                    /\ vReport' = "partial"
    /\ UNCHANGED <<datasets, manifest, vRules>>
    /\ UNCHANGED <<analyzerVars, anonVars, coordVars, loadVars, fileVars, rollbackVars, extractVars, reportVars>>

ValidNext == ValidMain

\* a dataset x_gas(id) with distinct positive ids and no missing value
CleanOther ==
    [name |-> xGas,
     columns |-> <<[name |-> idCol, cells |-> [i \in 1..MaxCells |-> Num(2 + i)]]>>]

\* the list s with x put at position i
InsertAt(s, i, x) == SubSeq(s, 1, i - 1) \o <<x>> \o SubSeq(s, i, Len(s))

\* the directories a first run finds: x_as alone, or x_as and x_bs in either
\* order
GrowInit ==
    /\ \E p \in ParentDatasets : \E c \in ChildDatasets :
          datasets \in {<<p, c>>, <<c, p>>, <<p>>}
    /\ manifest = <<>>
    /\ vRules \in {r \in RuleFiles : r.readable}
    /\ vPc = "input"
    /\ vResults = NoValidation
    /\ vReport = "none"

\* between two runs the data directory receives data that breaks no rule of
\* its own: a new file x_gas.parquet, at whatever place glob lists it, or a
\* row of x_as with a new positive id; the earlier report stays
ValidAddData ==
    /\ vPc = "done"
    /\ vResults.checks # <<>>
    /\ \/ /\ ~Loaded(datasets, xGas)
          /\ \E i \in 1..(Len(datasets) + 1) : datasets' = InsertAt(datasets, i, CleanOther)
       \/ \E d \in 1..Len(datasets) :
             /\ datasets[d].name = xAs
             /\ Num(2) \notin {datasets[d].columns[1].cells[i]
                                 : i \in 1..Len(datasets[d].columns[1].cells)}
             /\ datasets' = [datasets EXCEPT ![d].columns[1].cells = Append(@, Num(2))]
    /\ vPc' = "input"
    /\ UNCHANGED <<manifest, vRules, vResults, vReport>>
    /\ UNCHANGED <<analyzerVars, anonVars, coordVars, loadVars, fileVars, rollbackVars, extractVars, reportVars>>

GrowNext == ValidMain \/ ValidAddData

(***************************************************************************)
(*                   scripts/github/trigger-rollback.py                    *)
(***************************************************************************)

\* Bounds: the rows a district has in one target store, and the rollback runs
\* started one after the other.
MaxTenantRows == 1
MaxRollbacks == 2

\* a rollback that walks the stores in loading order
stores_forward == <<"ids", "hcp1", "hcp2", "adb", "sp">>

\* a rollback that forgets the first store loaded
stores_reverse_without_ids == <<"sp", "adb", "hcp2", "hcp1">>

\* stores_reverse of main()
stores_reverse == <<"sp", "adb", "hcp2", "hcp1", "ids">>

\* scripts/rollback.py for one store: delete_by_tenant for every table, in one
\* transaction.  ok: the transaction committed; otherwise it was rolled back
\* and the script exits non-zero.
rollback_store(rows, ok) ==
    IF ok THEN [rows |-> 0, deleted |-> rows, exit_code |-> 0]
    ELSE [rows |-> rows, deleted |-> 0, exit_code |-> 1]

\* post_github_comment: the comment reaches the issue unless gh fails, which
\* is only logged
post_github_comment(comments, message) ==
    IF ghWorks THEN Append(comments, message) ELSE comments

RollbackIdle ==
    /\ target = [s \in Range(LoadStores) |-> 0]
    /\ ghWorks = TRUE
    /\ rPc = "start"
    /\ rIdx = 1
    /\ rRunning = <<>>
    /\ rLog = <<>>
    /\ rComments = <<>>
    /\ rDeleted = 0
    /\ rRet = -1
    /\ rRuns = 0
    /\ rPrev = <<>>

RollbackInit ==
    /\ target \in [Range(LoadStores) -> 0..MaxTenantRows]
    /\ ghWorks \in BOOLEAN
    /\ rPc = "start"
    /\ rIdx = 1
    /\ rRunning = <<>>
    /\ rLog = <<>>
    /\ rComments = <<>>
    /\ rDeleted = 0
    /\ rRet = -1
    /\ rRuns = 1
    /\ rPrev = <<>>

\* "Post start comment"
RollbackStart ==
    /\ rPc = "start"
    /\ rPc' = "stores"
    /\ rComments' = post_github_comment(rComments, "Rollback Started")
    /\ UNCHANGED <<target, ghWorks, rIdx, rRunning, rLog, rDeleted, rRet, rRuns, rPrev>>
    /\ UNCHANGED <<analyzerVars, anonVars, coordVars, loadVars, fileVars, validVars, extractVars,
                   reportVars>>

\* one store of "for store in stores_reverse": the comment and run_command
\* entering subprocess.run
RollbackCall ==
    /\ rPc = "stores"
    /\ rRunning = <<>>
    /\ rRunning' = <<stores_reverse[rIdx]>>
    /\ rLog' = Append(rLog, Event("start", "rollback", stores_reverse[rIdx], ""))
    /\ rComments' = post_github_comment(rComments, "Deleting data")
    /\ UNCHANGED <<target, ghWorks, rPc, rIdx, rDeleted, rRet, rRuns, rPrev>>
    /\ UNCHANGED <<analyzerVars, anonVars, coordVars, loadVars, fileVars, validVars, extractVars,
                   reportVars>>

\* subprocess.run returns; a failed store ends main() with 1, the last store
\* done ends it with 0
RollbackExit ==
    /\ rPc = "stores"
    /\ rRunning # <<>>
    /\ \E ok \in BOOLEAN :
         LET store == rRunning[1]
             r == rollback_store(target[store], ok)
         IN /\ target' = [target EXCEPT ![store] = r.rows]
            /\ rDeleted' = rDeleted + r.deleted
            /\ rLog' = Append(rLog, Event("end", "rollback", store,
                                          IF ok THEN "ok" ELSE "error"))
            /\ IF ~run_command(r.exit_code)
               THEN /\ rComments' = post_github_comment(rComments,
                                        "MANUAL INTERVENTION REQUIRED")
                    /\ rPc' = "done"
                    /\ rRet' = 1
                    /\ UNCHANGED rIdx
               ELSE IF rIdx < Len(stores_reverse)
               THEN /\ rIdx' = rIdx + 1
                    /\ UNCHANGED <<rComments, rPc, rRet>>
               ELSE /\ rComments' = post_github_comment(rComments,
                                        "Rollback Completed Successfully")
                    /\ rPc' = "done"
                    /\ rRet' = 0
                    /\ UNCHANGED rIdx
    /\ rRunning' = <<>>
    /\ UNCHANGED <<ghWorks, rRuns, rPrev>>
    /\ UNCHANGED <<analyzerVars, anonVars, coordVars, loadVars, fileVars, validVars, extractVars,
                   reportVars>>

\* the rollback is started again on the target the run before left
RollbackAgain ==
    /\ rPc = "done"
    /\ rRuns < MaxRollbacks
    /\ rRuns' = rRuns + 1
    /\ rPrev' = <<[ret |-> rRet, target |-> target, deleted |-> rDeleted]>>
    /\ ghWorks' \in BOOLEAN
    /\ rPc' = "start"
    /\ rIdx' = 1
    /\ rLog' = <<>>
    /\ rComments' = <<>>
    /\ rDeleted' = 0
    /\ rRet' = -1
    /\ UNCHANGED <<target, rRunning>>
    /\ UNCHANGED <<analyzerVars, anonVars, coordVars, loadVars, fileVars, validVars, extractVars,
                   reportVars>>

RollbackNext == RollbackStart \/ RollbackCall \/ RollbackExit \/ RollbackAgain

(***************************************************************************)
(*             scripts/extractors/extract_with_relationships.py            *)
(***************************************************************************)

\* Bound: the tables of tables_to_extract.
MaxExtractTables == 2

\* The tables of a relational source store.  has_district_id: the table
\* carries the district_id column the filter names; fk_path: the schema has a
\* foreign-key path from the table to one that carries it; rows: the rows of
\* the district.
SourceTables(name) ==
    [table : {name}, has_district_id : BOOLEAN, fk_path : BOOLEAN, rows : 0..MaxTenantRows]

\* extract_postgres_table: SELECT * FROM table WHERE district_id = %s and the
\* Parquet file.  The query fails on a table without the column; io_ok is
\* false when the query or the write fails for another reason.  Every
\* exception ends in the failure result.
extract_postgres_table(store, t, io_ok) ==
    IF t.has_district_id /\ io_ok
    THEN [table |-> t.table, store |-> store, records |-> t.rows,
          file |-> <<store, t.table>>, success |-> TRUE]
    ELSE [table |-> t.table, store |-> store, records |-> 0,
          error |-> IF t.has_district_id THEN "io" ELSE "no column", success |-> FALSE]

\* the branch on has_district_id: both arms call extract_postgres_table
extract_table(store, t, io_ok) ==
    IF t.has_district_id
    THEN extract_postgres_table(store, t, io_ok)
    ELSE extract_postgres_table(store, t, io_ok)

\* a loop body that leaves success as it was when a table failed
record_table_keeping_success(results_, table_result) ==
    [results_ EXCEPT
        !.tables_extracted = Append(@, table_result),
        !.total_records = IF table_result.success THEN @ + table_result.records ELSE @,
        !.errors = IF table_result.success THEN @ ELSE Append(@, table_result.error)]

\* the end of the loop body: the table's result is appended, and counted or
\* recorded as an error
record_table(results_, table_result) ==
    [results_ EXCEPT
        !.tables_extracted = Append(@, table_result),
        !.total_records = IF table_result.success THEN @ + table_result.records ELSE @,
        !.errors = IF table_result.success THEN @ ELSE Append(@, table_result.error),
        !.success = IF table_result.success THEN @ ELSE FALSE]

\* the results dictionary at the start of extract_with_relationships
NoExtraction ==
    [store |-> "ids", tables_extracted |-> <<>>, total_records |-> 0, success |-> TRUE,
     errors |-> <<>>, error |-> <<>>]

\* "except Exception as e" of extract_with_relationships
extraction_failed(results_, e) == [results_ EXCEPT !.success = FALSE, !.error = <<e>>]

ExtractIdle ==
    /\ source = <<>>
    /\ exPc = "connect"
    /\ exIdx = 1
    /\ exResults = NoExtraction
    /\ exManifest = <<>>
    /\ exExit = -1
    /\ exConn = "none"

ExtractInit ==
    /\ \E n \in 1..MaxExtractTables :
          source \in [1..n -> UNION {SourceTables(name) : name \in {"x_as", "x_bs", "x_gas"}}]
    /\ \A i \in DOMAIN source : source[i].table = <<"x_as", "x_bs", "x_gas">>[i]
    /\ exPc = "connect"
    /\ exIdx = 1
    /\ exResults = NoExtraction
    /\ exManifest = <<>>
    /\ exExit = -1
    /\ exConn = "none"

\* get_db_connection: a missing password or a refused connection raises
ExtractConnect ==
    /\ exPc = "connect"
    /\ \E connected \in BOOLEAN :
          IF connected
          THEN /\ exPc' = "tables"
               /\ exConn' = "open"
               /\ UNCHANGED <<exResults, exExit>>
          ELSE /\ exResults' = extraction_failed(exResults, "connect")
               /\ exPc' = "done"
               /\ exExit' = 1
               /\ UNCHANGED exConn
    /\ UNCHANGED <<source, exIdx, exManifest>>
    /\ UNCHANGED <<analyzerVars, anonVars, coordVars, loadVars, fileVars, validVars,
                   rollbackVars, reportVars>>

\* one pass of "for table in tables_to_extract": the column lookup, which
\* raises into the outer handler when the connection is gone, and the
\* extraction of the table
ExtractTable ==
    /\ exPc = "tables"
    /\ exIdx <= Len(source)
    /\ \E lookup_ok \in BOOLEAN, io_ok \in BOOLEAN :
          IF lookup_ok
          THEN /\ exResults' = record_table(exResults,
                                   extract_table(exResults.store, source[exIdx], io_ok))
               /\ exIdx' = exIdx + 1
               /\ UNCHANGED <<exPc, exExit>>
          ELSE /\ exResults' = extraction_failed(exResults, "lookup")
               /\ exPc' = "done"
               /\ exExit' = 1
               /\ UNCHANGED exIdx
    /\ UNCHANGED <<source, exManifest, exConn>>
    /\ UNCHANGED <<analyzerVars, anonVars, coordVars, loadVars, fileVars, validVars,
                   rollbackVars, reportVars>>

\* after the loop: conn.close(), then the manifest is written and main()
\* exits with 0 or 1; a failed write raises into the outer handler
ExtractFinish ==
    /\ exPc = "tables"
    /\ exIdx > Len(source)
    /\ exConn' = "closed"
    /\ \E written_ok \in BOOLEAN :
          IF written_ok
          THEN /\ exManifest' = <<exResults>>
               /\ exExit' = IF exResults.success THEN 0 ELSE 1
               /\ UNCHANGED exResults
          ELSE /\ exResults' = extraction_failed(exResults, "manifest")
               /\ exExit' = 1
               /\ UNCHANGED exManifest
    /\ exPc' = "done"
    /\ UNCHANGED <<source, exIdx>>
    /\ UNCHANGED <<analyzerVars, anonVars, coordVars, loadVars, fileVars, validVars,
                   rollbackVars, reportVars>>

ExtractNext == ExtractConnect \/ ExtractTable \/ ExtractFinish

(***************************************************************************)
(*                       scripts/generate-report.py                        *)
(***************************************************************************)

\* The phases whose files collect_metrics reads, in pipeline order.
Phases == <<"extraction", "anonymization", "validation", "loading">>

\* extraction-manifest.json, anonymization-report.json and load-manifest.json,
\* as far as collect_metrics reads them: a file is absent (<<>>) or holds the
\* phase's success and possibly an error text
PhaseManifests(error_text) ==
    {<<>>} \cup {<<[success |-> ok, error |-> e]>> :
                    ok \in BOOLEAN, e \in {<<>>, <<error_text>>}}

\* validation-report.json
ValidationReports ==
    {<<>>} \cup {<<[overall_status |-> st, total_failed |-> IF st = "FAILED" THEN 1 ELSE 0]>> :
                    st \in {"PASSED", "PASSED_WITH_WARNINGS", "FAILED"}}

\* dict.get(key, default) on the error of a manifest
get_error(data, default) == IF data.error = <<>> THEN default ELSE data.error[1]

\* the metrics dictionary at the start of collect_metrics
NoMetrics ==
    [overall_success |-> TRUE, overall_status |-> "SUCCESS", error_message |-> <<>>,
     validation_status |-> "UNKNOWN"]

\* metrics after a phase reported failure
failed_with(m, message) ==
    [m EXCEPT !.overall_success = FALSE, !.overall_status = "FAILED",
              !.error_message = <<message>>]

\* collect_metrics, file by file; the extraction manifest contributes its
\* counts only
collect_metrics(files) ==
    LET m0 == NoMetrics
        m1 == m0
        m2 == IF files.anonymization # <<>> /\ ~files.anonymization[1].success
              THEN failed_with(m1, get_error(files.anonymization[1], "Anonymization failed"))
              ELSE m1
        m3 == IF files.validation = <<>> THEN m2
              ELSE LET v == files.validation[1]
                       m == [m2 EXCEPT !.validation_status = v.overall_status]
                   IN IF v.overall_status = "FAILED"
                      THEN failed_with(m, "Validation failed: " \o ToString(v.total_failed)
                                          \o " checks failed")
                      ELSE m
        m4 == IF files.loading # <<>> /\ ~files.loading[1].success
              THEN failed_with(m3, get_error(files.loading[1], "Loading failed"))
              ELSE m3
    IN m4

ReportIdle ==
    /\ phaseFiles = [extraction |-> <<>>, anonymization |-> <<>>, validation |-> <<>>,
                     loading |-> <<>>]
    /\ rpPc = "input"
    /\ metrics = NoMetrics

ReportInit ==
    /\ \E e \in PhaseManifests("extraction error"),
          a \in PhaseManifests("anonymization error"),
          v \in ValidationReports, l \in PhaseManifests("loading error") :
          phaseFiles = [extraction |-> e, anonymization |-> a, validation |-> v,
                        loading |-> l]
    /\ rpPc = "input"
    /\ metrics = NoMetrics

\* generate_report calling collect_metrics
ReportCollect ==
    /\ rpPc = "input"
    /\ metrics' = collect_metrics(phaseFiles)
    /\ rpPc' = "done"
    /\ UNCHANGED phaseFiles
    /\ UNCHANGED <<analyzerVars, anonVars, coordVars, loadVars, fileVars, validVars,
                   rollbackVars, extractVars>>

ReportNext == ReportCollect

(***************************************************************************)
(*                            Specifications                               *)
(***************************************************************************)

AnalyzerIdle == schema = <<>> /\ aPc = "input" /\ analysis = NoAnalysis

AnalyzerNext == AnalyzerMain

ValidIdle ==
    /\ datasets = <<>>
    /\ manifest = <<>>
    /\ vRules = NoRules
    /\ vPc = "input"
    /\ vResults = NoValidation
    /\ vReport = "none"

InitAnalyzer == AnonIdle /\ CoordIdle /\ LoadIdle /\ FileIdle /\ ValidIdle /\ RollbackIdle /\ ExtractIdle /\ ReportIdle /\ AnalyzerInit
InitAnon == AnalyzerIdle /\ AnonInit /\ CoordIdle /\ LoadIdle /\ FileIdle /\ ValidIdle /\ RollbackIdle /\ ExtractIdle /\ ReportIdle
InitCoord == AnalyzerIdle /\ AnonIdle /\ CoordInit /\ LoadIdle /\ FileIdle /\ ValidIdle /\ RollbackIdle /\ ExtractIdle /\ ReportIdle
InitLoad == AnalyzerIdle /\ AnonIdle /\ CoordIdle /\ FileIdle /\ ValidIdle /\ RollbackIdle /\ ExtractIdle /\ ReportIdle /\ LoadInit
InitToken == AnalyzerIdle /\ TokenInit /\ CoordIdle /\ LoadIdle /\ FileIdle /\ ValidIdle /\ RollbackIdle /\ ExtractIdle /\ ReportIdle
InitFile == AnalyzerIdle /\ FileInit /\ CoordIdle /\ LoadIdle /\ ValidIdle /\ RollbackIdle /\ ExtractIdle /\ ReportIdle

SpecAnalyzer == InitAnalyzer /\ [][AnalyzerNext]_vars

InitStores == AnonIdle /\ CoordIdle /\ LoadIdle /\ FileIdle /\ ValidIdle /\ RollbackIdle /\ ExtractIdle /\ ReportIdle /\ StoresInit
SpecStores == InitStores /\ [][AnalyzerNext]_vars

SpecAnon == InitAnon /\ [][AnonNext]_vars

SpecCoord == InitCoord /\ [][CoordNext]_vars

SpecLoad == InitLoad /\ [][LoadNext]_vars

SpecFile == InitFile /\ [][FileNext]_vars

SpecToken == InitToken /\ [][TokenNext]_vars

InitValid == AnalyzerIdle /\ AnonIdle /\ CoordIdle /\ LoadIdle /\ FileIdle /\ RollbackIdle /\ ExtractIdle /\ ReportIdle /\ ValidInit
SpecValid == InitValid /\ [][ValidNext]_vars

InitGrow == AnalyzerIdle /\ AnonIdle /\ CoordIdle /\ LoadIdle /\ FileIdle /\ GrowInit /\ RollbackIdle /\ ExtractIdle /\ ReportIdle
SpecGrow == InitGrow /\ [][GrowNext]_vars

InitRollback ==
    AnalyzerIdle /\ AnonIdle /\ CoordIdle /\ LoadIdle /\ FileIdle /\ ValidIdle /\ RollbackInit
    /\ ExtractIdle /\ ReportIdle
SpecRollback == InitRollback /\ [][RollbackNext]_vars

InitExtract ==
    AnalyzerIdle /\ AnonIdle /\ CoordIdle /\ LoadIdle /\ FileIdle /\ ValidIdle /\ RollbackIdle
    /\ ExtractInit /\ ReportIdle
SpecExtract == InitExtract /\ [][ExtractNext]_vars

InitReport ==
    AnalyzerIdle /\ AnonIdle /\ CoordIdle /\ LoadIdle /\ FileIdle /\ ValidIdle /\ RollbackIdle
    /\ ExtractIdle /\ ReportInit
SpecReport == InitReport /\ [][ReportNext]_vars

InitGraph ==
    AnalyzerIdle /\ AnonIdle /\ CoordIdle /\ FileIdle /\ ValidIdle /\ RollbackIdle
    /\ ExtractIdle /\ ReportIdle /\ GraphInit
SpecGraph == InitGraph /\ [][GraphNext]_vars

(***************************************************************************)
(*                     Properties of the schema analyzer                   *)
(***************************************************************************)

G == analysis.dependency_graph
Order == analysis.extraction_order
Cycles == analysis.circular_dependencies

Succ(g, S) == UNION {Range(g.children[u]) : u \in S}

RECURSIVE Closure(_, _)
Closure(g, S) == LET T == S \cup Succ(g, S) IN IF T = S THEN S ELSE Closure(g, T)

\* the nodes reachable from u along one edge or more
ReachableFrom(g, u) == Closure(g, Succ(g, {u}))

OnCycle(g, u) == u \in ReachableFrom(g, u)

HasDirectedCycle(g) == \E u \in Nodes(g) : OnCycle(g, u)

NoDuplicates(s) == \A i, j \in 1..Len(s) : i # j => s[i] # s[j]

\* (u, v) is an edge of the closed sequence cycle
OnCycleSeq(cycle, u, v) ==
    \E i \in 1..(Len(cycle) - 1) : cycle[i] = u /\ cycle[i + 1] = v

\* (u, v) lies on a reported cycle whose declared break-point is (u, v)
DeclaredBreak(u, v) ==
    \E i \in 1..Len(Cycles) :
        /\ Cycles[i].break_point.break_from = u
        /\ Cycles[i].break_point.break_to = v
        /\ OnCycleSeq(Cycles[i].tables, u, v)

\* C2: every edge u -> v of the graph has u before v in the extraction
\* order, unless (u, v) is the declared break-point of a reported cycle it
\* lies on.
TopologySoundness ==
    aPc = "done" =>
        \A e \in Edges(G) :
            \/ DeclaredBreak(e[1], e[2])
            \/ /\ e[1] \in Range(Order)
               /\ e[2] \in Range(Order)
               /\ Index(Order, e[1]) < Index(Order, e[2])

\* C6: the extraction order holds each node at most once, holds every node
\* of an acyclic graph, and when there are cycles still holds every node that
\* is on no cycle and the nodes of each reported cycle.
OrderCoversGraph ==
    aPc = "done" =>
        /\ NoDuplicates(Order)
        /\ Range(Order) \subseteq Nodes(G)
        /\ ~HasDirectedCycle(G) => Range(Order) = Nodes(G)
        /\ \A n \in Nodes(G) : ~OnCycle(G, n) => n \in Range(Order)
        /\ \A i \in 1..Len(Cycles) : Range(Cycles[i].tables) \subseteq Range(Order)

\* C7: has_cycles is true exactly when the order is shorter than the node
\* set, exactly when the graph has a directed cycle, and exactly when
\* circular_dependencies is not empty.
HasCyclesIffCycle ==
    aPc = "done" =>
        /\ analysis.has_cycles <=> (Len(Order) < Cardinality(Nodes(G)))
        /\ analysis.has_cycles <=> HasDirectedCycle(G)
        /\ analysis.has_cycles <=> (Cycles # <<>>)

\* a cyclic catalog, part of which could be ordered, has been analyzed
HasCyclesWitness ==
    /\ aPc = "done"
    /\ analysis.has_cycles
    /\ Cycles # <<>>
    /\ Len(Order) > 0

\* C8: the break_from of every reported cycle is a node of the cycle with
\* the fewest outgoing edges in the full graph and, among the nodes tied for
\* that minimum, the lexically smallest.
BreakPointPolicy ==
    aPc = "done" =>
        \A i \in 1..Len(Cycles) :
            LET from == Cycles[i].break_point.break_from
            IN /\ from \in Range(Cycles[i].tables)
               /\ \A n \in Range(Cycles[i].tables) :
                     /\ Len(G.children[from]) <= Len(G.children[n])
                     /\ Len(G.children[from]) = Len(G.children[n]) => from <= n

\* the simple cycles of g, each as the closed sequence that starts at its
\* lexically smallest node
SimpleCycles(g) ==
    {p \o <<p[1]>> : p \in
        {q \in TableLists :
            /\ Len(q) >= 1
            /\ \A i \in 1..Len(q) : q[1] <= q[i]
            /\ \A i \in 1..(Len(q) - 1) : <<q[i], q[i + 1]>> \in Edges(g)
            /\ <<q[Len(q)], q[1]>> \in Edges(g)}}

\* C9: find_cycles reports every simple cycle exactly once, as the closed
\* sequence that starts at the cycle's lexically smallest node.
CyclesReportedOnce ==
    aPc = "done" =>
        /\ NoDuplicates([i \in 1..Len(Cycles) |-> Cycles[i].tables])
        /\ {Cycles[i].tables : i \in 1..Len(Cycles)} = SimpleCycles(G)

(***************************************************************************)
(*                      Properties of the anonymizer                       *)
(***************************************************************************)

NullPreservation ==
    /\ isna(lastCell.original) => isna(lastCell.out)
    /\ \A p \in storedFor : ~isna(p.original)
    /\ \A i \in 1..Len(Rules) :
          /\ Key(Rules[i].name, None) \notin DOMAIN mappings
          /\ Key(Rules[i].name, NaN) \notin DOMAIN mappings

\* a missing value went through the hash strategy while the map held entries
NullThroughHashWitness ==
    /\ lastCell.strategy = "hash"
    /\ lastCell.original = NaN
    /\ lastCell.out = None
    /\ storedFor # {}

(***************************************************************************)
(*                      Properties of the coordinator                      *)
(***************************************************************************)

Started(stage) == \E i \in 1..Len(cLog) : cLog[i].ev = "start" /\ cLog[i].stage = stage

Ended(stage, store) ==
    \E i \in 1..Len(cLog) :
        cLog[i].ev = "end" /\ cLog[i].stage = stage /\ cLog[i].store = store

EndedWith(stage, outcome) ==
    \E i \in 1..Len(cLog) :
        cLog[i].ev = "end" /\ cLog[i].stage = stage /\ cLog[i].outcome = outcome

\* C4: after the anonymizer reported a PII leak the validator is never
\* started, and after the validator reported FAILED no loader is started.
NoPhaseAfterFailure ==
    /\ EndedWith("anonymize", "pii_leak") => ~Started("validate")
    /\ EndedWith("validate", "FAILED") => ~Started("load")

\* a run whose validation reported FAILED has returned
FailedValidationWitness ==
    /\ cPc = "done"
    /\ cRet = 1
    /\ EndedWith("validate", "FAILED")
    /\ ~LoadSkipped

PhaseRank(stage) ==
    IF stage = "extract" THEN 1
    ELSE IF stage = "anonymize" THEN 2
    ELSE IF stage = "validate" THEN 3
    ELSE IF stage = "load" THEN 4
    ELSE 5

AllStores == {"ids", "hcp1", "hcp2", "adb", "sp"}

\* C5: the stages that run start in the order extract, anonymize, validate,
\* load, report, each after the stage before it has exited; when a loader
\* starts, the anonymizer has exited and, unless extraction is bypassed, so
\* have the extractions of all five stores (a bypassed extraction never runs).
PhaseOrder ==
    /\ \A i, j \in 1..Len(cLog) :
          i < j => PhaseRank(cLog[i].stage) <= PhaseRank(cLog[j].stage)
    /\ \A i \in 1..Len(cLog) :
          IF i % 2 = 1
          THEN cLog[i].ev = "start"
          ELSE /\ cLog[i].ev = "end"
               /\ cLog[i].stage = cLog[i - 1].stage
               /\ cLog[i].store = cLog[i - 1].store
    /\ Started("load") =>
          /\ Ended("anonymize", "")
          /\ Ended("validate", "")
          /\ IF ExtractionSkipped
             THEN ~Started("extract")
             ELSE \A st \in AllStores : Ended("extract", st)
    /\ Started("report") /\ ~LoadSkipped => \A st \in AllStores : Ended("load", st)

\* the first loader has started in a run that extracted
LoaderStartedWitness ==
    /\ cRunning = <<"load", "ids">>
    /\ Started("extract")

(***************************************************************************)
(*                        Properties of the loader                         *)
(***************************************************************************)

FailedTables ==
    {results.tables_loaded[i].table :
        i \in {j \in 1..Len(results.tables_loaded) : ~results.tables_loaded[j].success}}

\* C1: a relational load is all-or-nothing.  Nothing is committed unless
\* conn.commit() ran, which happens only when every attempted table
\* succeeded; when a table fails the run is over, the store holds what it
\* held before the run, no uncommitted row is left, and the result has
\* success false and names the table.
LoadAllOrNothing ==
    /\ ~didCommit => committed = db0
    /\ didCommit => FailedTables = {}
    /\ FailedTables # {} =>
          /\ lPc = "done"
          /\ committed = db0
          /\ work = db0
          /\ ~results.success
          /\ \E t \in FailedTables : results.error = <<"Failed to load", t>>

\* under insert, the second table failed after the first had been written
SecondTableFailedWitness ==
    /\ lPc = "done"
    /\ strategy = "insert"
    /\ Len(results.tables_loaded) = 2
    /\ results.tables_loaded[1].success
    /\ results.tables_loaded[1].rows_loaded > 0
    /\ ~results.tables_loaded[2].success

(***************************************************************************)
(*              Properties of the anonymizer, file by file                 *)
(***************************************************************************)

\* the staged file an anonymized file was made from
StagedOf(out) == CHOOSE f \in Range(staged) : f.name = out.name

\* the entry of files_processed for an anonymized file
ResultOf(out) ==
    CHOOSE r \in Range(report.files_processed) : r.file = out.name /\ r.success

\* the positions of the rules whose pattern accepts the column name
MatchingRules(column) ==
    {j \in 1..Len(fRules) : column \in fRules[j].field_pattern}

FirstMatching(column) ==
    fRules[CHOOSE j \in MatchingRules(column) : \A k \in MatchingRules(column) : j <= k]

\* the cells out are what the strategy of rule g makes of the cells in
EffectOf(g, in, out) ==
    /\ Len(out) = Len(in)
    /\ \A i \in 1..Len(in) :
         IF g.strategy = "nullify" THEN out[i] = None
         ELSE IF g.strategy = "preserve" THEN out[i] = in[i]
         ELSE IF isna(in[i]) THEN out[i] = None
         ELSE IF g.strategy = "hash"
         THEN out[i] = Digest("sha256", in[i].s \o salt)
         ELSE /\ g.strategy = "faker"
              /\ out[i] \in FakeValues(g.faker_type) \cup {PriorMap[x] : x \in DOMAIN PriorMap}

\* C11: every column of an anonymized file is governed by the first rule of
\* the list whose pattern matches its name, letter case aside, and by no
\* later one; a column no rule matches is written unchanged.
FirstRuleGoverns ==
    \A k \in 1..Len(written) :
        LET out == written[k]
            src == StagedOf(out)
            res == ResultOf(out)
        IN /\ Len(out.columns) = Len(src.columns)
           /\ \A i \in 1..Len(src.columns) :
                LET column == src.columns[i].name
                IN /\ out.columns[i].name = column
                   /\ IF MatchingRules(column) = {}
                      THEN /\ out.columns[i].cells = src.columns[i].cells
                           /\ column \notin Range(res.anonymized_fields)
                      ELSE /\ EffectOf(FirstMatching(column), src.columns[i].cells,
                                       out.columns[i].cells)
                           /\ \A e \in Range(res.fields_by_rule) :
                                e.field = column => e.rule = FirstMatching(column).name
                           /\ \E e \in Range(res.fields_by_rule) : e.field = column

\* a file was written whose p_id column two rules match, the pattern P_ID of
\* the first in another letter case than the name, and whose value column no
\* rule matches
FirstOfTwoRulesWitness ==
    \E k \in 1..Len(written) :
        /\ written[k].name = "C"
        /\ Cardinality(MatchingRules(pidCol)) = 2
        /\ FirstMatching(pidCol).name = <<"fk_rule">>
        /\ MatchingRules(valueCol) = {}
        /\ \E i \in 1..Len(StagedOf(written[k]).columns[1].cells) :
              ~isna(StagedOf(written[k]).columns[1].cells[i])

\* the anonymized file of a name, and whether it was written
WrittenFile(name) == CHOOSE f \in Range(written) : f.name = name
IsWritten(name) == \E f \in Range(written) : f.name = name

\* the cells of a column of a file
CellsIn(file, column) ==
    (CHOOSE c \in Range(file.columns) : c.name = column).cells

\* the number a key cell stands for: 1 and 1.0 are the same key
KeyNumber(value) == value.s[1]

\* the row pairs the equijoin C.p_id = P.id pairs before the transform
JoinBefore ==
    LET ids == CellsIn(StagedOf(WrittenFile("P")), idCol)
        fks == CellsIn(StagedOf(WrittenFile("C")), pidCol)
    IN {<<i, j>> \in (1..Len(ids)) \X (1..Len(fks)) :
            ~isna(ids[i]) /\ ~isna(fks[j]) /\ KeyNumber(ids[i]) = KeyNumber(fks[j])}

\* the row pairs the equijoin pairs after the transform
JoinAfter ==
    LET ids == CellsIn(WrittenFile("P"), idCol)
        fks == CellsIn(WrittenFile("C"), pidCol)
    IN {<<i, j>> \in (1..Len(ids)) \X (1..Len(fks)) :
            ~isna(ids[i]) /\ ~isna(fks[j]) /\ ids[i] = fks[j]}

\* id and p_id are hashed by one rule and name is anonymized synthetically
HashedKeysFakedName ==
    /\ IsWritten("P") /\ IsWritten("C")
    /\ MatchingRules(idCol) # {} /\ MatchingRules(pidCol) # {}
    /\ FirstMatching(idCol) = FirstMatching(pidCol)
    /\ FirstMatching(idCol).strategy = "hash"
    /\ nameCol \in {c.name : c \in Range(WrittenFile("P").columns)}
    /\ MatchingRules(nameCol) # {}
    /\ FirstMatching(nameCol).strategy = "faker"

\* C12: with P(id, name) and C(p_id, value), id and p_id hashed by the same
\* rule and name anonymized synthetically, the equijoin on C.p_id = P.id
\* pairs the same rows after the transform as before it.
JoinPreserved == HashedKeysFakedName => JoinAfter = JoinBefore

\* a foreign-key column: named *_id, other than id
IsForeignKey(column) == EndsWith(column, <<"_", "i", "d">>) /\ column # idCol

\* the rule of the list with a given name
RuleNamed(name) == CHOOSE r \in Range(fRules) : r.name = name

\* C13: no foreign-key column of a processed file is governed by a rule
\* whose strategy is nullify; it is preserved or governed by a deterministic
\* strategy.
NoNullOnForeignKey ==
    \A r \in Range(report.files_processed) :
        r.success =>
            \A e \in Range(r.fields_by_rule) :
                IsForeignKey(e.field) =>
                    RuleNamed(e.rule).strategy \in {"preserve", "hash", "tokenize", "faker"}

MissingSaltStopsRun ==
    /\ [](salt = <<>> =>
            /\ anPc # "running"
            /\ written = <<>>
            /\ fIdx = 1
            /\ report.files_processed = <<>>
            /\ (anPc = "done" => ~report.success))
    /\ [][salt = <<>> => mapFile' = mapFile]_vars

\* a run without salt that has ended, with staged files waiting and an
\* earlier map on disk
MissingSaltWitness ==
    /\ salt = <<>>
    /\ anPc = "done"
    /\ staged # <<>>
    /\ mapFile.kind = "complete"
    /\ ~report.success

(***************************************************************************)
(*                        Properties of the tokens                         *)
(***************************************************************************)

\* the token the counter value n is formatted as
TokenOf(n) == StrValue(<<"TOKEN_">> \o Format08d(n))

\* the originals a rule has tokenized, and the tokens it issued
OriginalsOf(rule_name) == {h.original : h \in {x \in hist : x.rule = rule_name}}
TokensOf(rule_name) == {h.out : h \in {x \in hist : x.rule = rule_name}}

\* two distinct originals of one rule never share a token
TokensDistinct ==
    \A h1 \in hist : \A h2 \in hist :
        (h1.rule = h2.rule /\ h1.original # h2.original) => h1.out # h2.out

\* the counter of a rule is advanced by the originals of that rule only: the
\* tokens it issued are TOKEN_00000001 up to the number of its originals
CounterPerRule ==
    \A rule_name \in TokenRuleNames :
        TokensOf(rule_name) = {TokenOf(n) : n \in 1..Cardinality(OriginalsOf(rule_name))}

\* C14: tokens come from a counter per rule name, formatted TOKEN_ plus 8
\* digits: distinct originals of a rule never share a token and the counter
\* of a rule is not advanced by the entries of another rule.
TokenCounterPerRule == TokensDistinct /\ CounterPerRule

(***************************************************************************)
(*                 Properties of the consistency map file                  *)
(***************************************************************************)

\* C15: the consistency map file is replaced atomically: at its final path
\* it never holds a partially written map, only a complete one (or none
\* before the first save).
MapFileAtomic == mapFile.kind \in {"absent", "complete"}

(***************************************************************************)
(*                       Properties of the validator                       *)
(***************************************************************************)

\* the five families of a report left an error, a warning
AnyFamilyError == \E i \in 1..Len(vResults.checks) : vResults.checks[i].errors # <<>>
AnyFamilyWarning == \E i \in 1..Len(vResults.checks) : vResults.checks[i].warnings # <<>>

\* C18: the report's overall_status is FAILED if any of the five families
\* reported an error, otherwise PASSED_WITH_WARNINGS if any family reported a
\* warning, otherwise PASSED; success is false exactly when the status is
\* FAILED.
StatusFollowsFamilies ==
    /\ (vPc = "done" /\ vReport # "none") =>
          /\ Len(vResults.checks) = Len(Families)
          /\ vResults.overall_status =
                IF AnyFamilyError THEN "FAILED"
                ELSE IF AnyFamilyWarning THEN "PASSED_WITH_WARNINGS"
                ELSE "PASSED"
    /\ vPc = "done" => (~vResults.success <=> vResults.overall_status = "FAILED")

\* a written report with both a failed check and a warning
FailedWithWarningsWitness ==
    /\ vPc = "done"
    /\ vReport = "complete"
    /\ AnyFamilyError
    /\ AnyFamilyWarning
    /\ vResults.overall_status = "FAILED"

\* the referential-integrity family of the report
RiFamily == vResults.checks[2]

\* the columns named *_id (other than id) of a dataset
ForeignKeyColumns(df) ==
    {df.columns[j].name : j \in {k \in 1..Len(df.columns) :
        /\ Len(df.columns[k].name) > 3
        /\ SubSeq(df.columns[k].name, Len(df.columns[k].name) - 2,
                  Len(df.columns[k].name)) = <<"_", "i", "d">>}}

\* the name the `_id` -> `s` rule gives the referenced table
GuessedTable(column) == SubSeq(column, 1, Len(column) - 3) \o <<"s">>

\* the positions of the datasets with an id column the naming rule resolves
\* a column to
ResolvedBy(column) ==
    {i \in 1..Len(datasets) :
        /\ \E j \in 1..Len(datasets[i].columns) : datasets[i].columns[j].name = idCol
        /\ \E k \in 1..Len(datasets[i].name) :
              /\ k + Len(GuessedTable(column)) - 1 <= Len(datasets[i].name)
              /\ SubSeq(datasets[i].name, k, k + Len(GuessedTable(column)) - 1)
                     = GuessedTable(column)}

\* the dataset a column is checked against: the first one resolved
ReferencedDataset(column) ==
    datasets[CHOOSE i \in ResolvedBy(column) : \A j \in ResolvedBy(column) : i <= j]

\* the values other than NaN of a column
NonNull(df, column) ==
    {c \in UNION {{df.columns[j].cells[r] : r \in 1..Len(df.columns[j].cells)}
                  : j \in {k \in 1..Len(df.columns) : df.columns[k].name = column}}
       : c # Missing}

\* the non-null values of a column absent from the referenced id set
AbsentValues(df, column) ==
    NonNull(df, column) \ NonNull(ReferencedDataset(column), idCol)

\* the errors the family reports for one column
RiErrorsFor(df, column) ==
    {i \in 1..Len(RiFamily.errors) :
        RiFamily.errors[i].table = df.name /\ RiFamily.errors[i].column = column}

\* C19: for every column named *_id (other than id) the naming rule resolves
\* to a dataset, the referential-integrity family reports one error if some
\* non-null value of the column is absent from that dataset's id set and none
\* otherwise, and sample_orphaned lists only absent values; a column no
\* dataset resolves for gets no error and is counted as passed.
OrphansReportedOnce ==
    (vPc = "done" /\ vResults.checks # <<>>) =>
        /\ \A d \in 1..Len(datasets) : \A c \in ForeignKeyColumns(datasets[d]) :
              IF ResolvedBy(c) = {}
              THEN RiErrorsFor(datasets[d], c) = {}
              ELSE /\ Cardinality(RiErrorsFor(datasets[d], c)) =
                         IF AbsentValues(datasets[d], c) # {} THEN 1 ELSE 0
                   /\ \A i \in RiErrorsFor(datasets[d], c) :
                         /\ RiFamily.errors[i].sample_orphaned # {}
                         /\ RiFamily.errors[i].sample_orphaned \subseteq
                                AbsentValues(datasets[d], c)
                         /\ RiFamily.errors[i].referenced_table =
                                ReferencedDataset(c).name
        /\ RiFamily.checks_failed = Len(RiFamily.errors)
        /\ RiFamily.checks_passed + RiFamily.checks_failed = RiFamily.checks_run
        /\ RiFamily.checks_run =
              Cardinality({p \in (1..Len(datasets)) \X {aIdCol, cIdCol, pidCol} :
                              p[2] \in ForeignKeyColumns(datasets[p[1]])})

\* x_bs.a_id holds 1 and 3, x_as.id holds 1 only: one error listing 3, while
\* x_bs.c_id, which no dataset resolves for, is counted as passed
OrphanSampleWitness ==
    /\ vPc = "done"
    /\ vResults.checks # <<>>
    /\ \E d \in 1..Len(datasets) :
          /\ datasets[d].name = xBs
          /\ NonNull(datasets[d], aIdCol) = {Num(1), Num(3)}
          /\ ResolvedBy(aIdCol) # {}
          /\ ReferencedDataset(aIdCol).name = xAs
          /\ ResolvedBy(cIdCol) = {}
    /\ Len(RiFamily.errors) = 1
    /\ RiFamily.errors[1].sample_orphaned = {Num(3)}
    /\ RiFamily.checks_passed = 1

\* the loaded datasets of a name
NamedDataset(name) == {i \in 1..Len(datasets) : datasets[i].name = name}

\* C20: with a schema manifest present, a column it declares a foreign key
\* for is checked against the table the declaration references, whatever
\* the naming rule resolves the column to: an error naming that table is
\* reported exactly when a non-null value is absent from its id set.
DeclaredForeignKeysChecked ==
    (vPc = "done" /\ vResults.checks # <<>>) =>
        \A k \in 1..Len(manifest) :
            \A t \in NamedDataset(manifest[k].table) :
                \A r \in NamedDataset(manifest[k].references) :
                    /\ \A i \in RiErrorsFor(datasets[t], manifest[k].column) :
                          RiFamily.errors[i].referenced_table = manifest[k].references
                    /\ (NonNull(datasets[t], manifest[k].column)
                            \ NonNull(datasets[r], idCol) # {})
                       <=> RiErrorsFor(datasets[t], manifest[k].column) # {}

\* C21: a run of the validator after data that breaks no rule was added
\* reports no more failed checks and no more warnings than the run before.
ValidatorMonotone ==
    [][(vPc = "input" /\ vPc' = "done" /\ vResults.checks # <<>>
                                       /\ vResults'.checks # <<>>) =>
          /\ vResults'.total_failed <= vResults.total_failed
          /\ vResults'.total_warnings <= vResults.total_warnings]_vars

(***************************************************************************)
(*                   Properties of the loader's table loop                 *)
(***************************************************************************)

\* the positions of the loading order the loop reached whose file holds rows
WithRows == {i \in 1..Len(lFiles) : lFiles[i].exists /\ Len(lFiles[i].ids) > 0}

\* the name of the k-th table, in loading order, of those whose file holds
\* rows
KthWithRows(k) ==
    LoadingOrder[CHOOSE i \in WithRows : Cardinality({j \in WithRows : j <= i}) = k]

\* C22: the tables written are those of the loading order whose file holds
\* rows, in that order and each with the selected strategy (merge runs the
\* upsert); a table whose file is missing or empty is passed over without
\* failing the run, and at the commit every table with rows was loaded.
LoadFollowsOrder ==
    /\ Len(results.tables_loaded) = Cardinality(WithRows)
          \/ (strategy \notin {"insert", "upsert", "merge"}
                 /\ Len(results.tables_loaded) = Cardinality(WithRows) - 1)
    /\ \A k \in 1..Len(results.tables_loaded) :
          /\ results.tables_loaded[k].table = KthWithRows(k)
          /\ results.tables_loaded[k].strategy =
                IF strategy = "merge" THEN "upsert" ELSE strategy
    /\ (lPc = "tables" /\ lFiles # <<>> /\ lFiles[Len(lFiles)] \in {MissingFile,
                                               [exists |-> TRUE, ids |-> <<>>]}) =>
          results.success /\ conn = "open"
    /\ didCommit =>
          /\ Len(lFiles) = Len(LoadingOrder)
          /\ Len(results.tables_loaded) = Cardinality(WithRows)
          /\ \A k \in 1..Len(results.tables_loaded) : results.tables_loaded[k].success
          /\ \A i \in WithRows : \A id \in Range(lFiles[i].ids) :
                \E r \in committed[LoadingOrder[i]] : r.id = id

\* a committed run that passed over the first table (file missing) and loaded
\* the second
SkippedThenLoadedWitness ==
    /\ didCommit
    /\ results.success
    /\ lFiles[1] = MissingFile
    /\ Len(results.tables_loaded) = 1
    /\ results.tables_loaded[1].table = LoadingOrder[2]

(***************************************************************************)
(*                       Properties of the rollback                        *)
(***************************************************************************)

RECURSIVE Reverse(_)
Reverse(seq) == IF seq = <<>> THEN <<>> ELSE Append(Reverse(Tail(seq)), Head(seq))

\* the stores whose rollback subprocess was started in this run, in order
RollbackStarted ==
    LET Starts(e) == e.ev = "start"
        started == SelectSeq(rLog, Starts)
    IN [i \in 1..Len(started) |-> started[i].store]

\* C23: the rollback starts the stores' subprocesses one at a time, each
\* after the one before has ended, in the exact reverse of the order in which
\* the migration loads the stores.
RollbackReversesLoad ==
    /\ Len(RollbackStarted) <= Len(LoadStores)
    /\ RollbackStarted = SubSeq(Reverse(LoadStores), 1, Len(RollbackStarted))
    /\ \A i \in 1..Len(rLog) :
          /\ rLog[i].ev = (IF i % 2 = 1 THEN "start" ELSE "end")
          /\ (i % 2 = 0) => rLog[i].store = rLog[i - 1].store
    /\ rRet = 0 => RollbackStarted = Reverse(LoadStores)

\* a rollback that went through all five stores
AllStoresRolledBackWitness ==
    /\ rRet = 0
    /\ Len(rLog) = 2 * Len(LoadStores)
    /\ rLog[1].store = "sp"
    /\ rLog[Len(rLog)].store = "ids"

FailedRollbackSurfaced ==
    (rPc = "done" /\ rRet = 1) =>
        /\ rLog[Len(rLog)].outcome = "error"
        /\ Len(RollbackStarted) = rIdx
        /\ \E i \in 1..Len(rComments) : rComments[i] = "MANUAL INTERVENTION REQUIRED"

\* What the code does ensure: when a store's rollback fails the run ends with
\* 1 and starts no further store; the manual-intervention comment is the last
\* comment posted whenever gh can post, and a failed post is only logged.
FailedRollbackStops ==
    /\ (rPc = "done" /\ rRet = 1) =>
          /\ rLog[Len(rLog)].outcome = "error"
          /\ Len(RollbackStarted) = rIdx
          /\ \A i \in 1..(Len(rLog) - 1) : rLog[i].outcome # "error"
          /\ \A k \in (rIdx + 1)..Len(stores_reverse) :
                \A i \in 1..Len(rLog) : rLog[i].store # stores_reverse[k]
          /\ ghWorks => rComments[Len(rComments)] = "MANUAL INTERVENTION REQUIRED"
          /\ ~ghWorks => rComments = <<>>
    /\ (rPc = "done" /\ rRet = 0) =>
          /\ \A i \in 1..Len(rComments) : rComments[i] # "MANUAL INTERVENTION REQUIRED"
          /\ \A i \in 1..Len(rLog) : rLog[i].outcome # "error"
    /\ (rRet = -1 /\ rLog # <<>>) => \A i \in 1..Len(rLog) : rLog[i].outcome # "error"

\* the rollback of hcp2 failed after sp and adb were rolled back
PartialRollbackWitness ==
    /\ rPc = "done"
    /\ rRet = 1
    /\ rIdx = 3
    /\ rLog[Len(rLog)].store = "hcp2"
    /\ ghWorks
    /\ rComments[Len(rComments)] = "MANUAL INTERVENTION REQUIRED"

(***************************************************************************)
(*                       Properties of the extractor                       *)
(***************************************************************************)

\* the tables whose extraction failed, as recorded
FailedExtractions ==
    {i \in 1..Len(exResults.tables_extracted) : ~exResults.tables_extracted[i].success}

\* C26 as stated: every table is extracted, a failed one with an error
\* recorded, and the result has success false exactly when a table failed.
TableFailuresDecideSuccess ==
    exPc = "done" =>
        /\ Len(exResults.tables_extracted) = Len(source)
        /\ Len(exResults.errors) = Cardinality(FailedExtractions)
        /\ exResults.success = (FailedExtractions = {})

\* C26, amended: a table's failure is recorded with its error and the loop
\* goes on with the next table in order; success is false exactly when a
\* table failed or an error outside the tables' extraction (connecting, the
\* column lookup, writing the manifest) ended the run, and such an error
\* leaves the remaining tables unextracted.
TableFailureContinues ==
    /\ Len(exResults.tables_extracted) = exIdx - 1
    /\ \A i \in 1..Len(exResults.tables_extracted) :
          exResults.tables_extracted[i].table = source[i].table
    /\ Len(exResults.errors) = Cardinality(FailedExtractions)
    /\ exResults.success = (FailedExtractions = {} /\ exResults.error = <<>>)
    /\ exPc = "done" =>
          /\ exResults.error = <<>> => Len(exResults.tables_extracted) = Len(source)
          /\ exExit = (IF exResults.success THEN 0 ELSE 1)
          /\ (exManifest # <<>>) = (exResults.error = <<>>)

\* the first table failed, the second was extracted after it
FailThenExtractWitness ==
    /\ exPc = "done"
    /\ Len(exResults.tables_extracted) = 2
    /\ ~exResults.tables_extracted[1].success
    /\ exResults.tables_extracted[2].success
    /\ exResults.tables_extracted[2].records > 0
    /\ exResults.error = <<>>
    /\ ~exResults.success
    /\ exExit = 1

\* C27: a table without the filter column and without a foreign-key path to
\* one is recorded as skipped with reason no_tenant_path and does not fail
\* the phase; with a path it is read through a join.
NoTenantPathSkipped ==
    \A i \in 1..Len(exResults.tables_extracted) :
        LET r == exResults.tables_extracted[i]
        IN ~source[i].has_district_id =>
              IF source[i].fk_path
              THEN "join_strategy" \in DOMAIN r
              ELSE /\ "reason" \in DOMAIN r
                   /\ r.reason = "no_tenant_path"
                   /\ ((FailedExtractions \ {i}) = {} /\ exResults.error = <<>>) => exResults.success

(***************************************************************************)
(*                   Properties of the aggregate report                    *)
(***************************************************************************)

\* whether a phase's file reports failure
ReportsFailure(phase) ==
    /\ phaseFiles[phase] # <<>>
    /\ IF phase = "validation"
       THEN phaseFiles[phase][1].overall_status = "FAILED"
       ELSE ~phaseFiles[phase][1].success

\* C30: when a phase's file reports failure, overall_success is false and
\* the error surfaced is that of the first such phase in the order extract,
\* anonymize, validate, load.
FirstFailedPhaseSurfaced ==
    rpPc = "done" =>
        \A k \in 1..Len(Phases) :
            (ReportsFailure(Phases[k]) /\ \A j \in 1..(k - 1) : ~ReportsFailure(Phases[j])) =>
                /\ ~metrics.overall_success
                /\ metrics.error_message # <<>>
                /\ Phases[k] # "validation" /\ phaseFiles[Phases[k]][1].error # <<>> =>
                      metrics.error_message = phaseFiles[Phases[k]][1].error

(***************************************************************************)
(*                Properties of the coordinator's exit code                *)
(***************************************************************************)

\* the stages whose script exited non-zero in this run
FailedStages ==
    {cLog[i].stage : i \in {j \in 1..Len(cLog) :
        cLog[j].ev = "end" /\ cLog[j].outcome \notin {"ok", "PASSED", "PASSED_WITH_WARNINGS"}}}

\* C28 as stated: the run returns 1 whenever a stage that ran exited
\* non-zero, the report included, and 0 only when every stage succeeded.
AnyStageFailureReturnsOne ==
    cPc = "done" => (cRet = 1) = (FailedStages # {})

\* C28, amended: the run returns 1 exactly when an extract, anonymize,
\* validate or load stage exited non-zero, that stage being the last one
\* started; a failed report is only logged and the run returns 0.
StageFailureReturnsOne ==
    /\ cRet \in {-1, 0, 1}
    /\ (cPc = "done") = (cRet # -1)
    /\ cPc = "done" => (cRet = 1) = (FailedStages \ {"report"} # {})
    /\ cRet = 1 =>
          /\ cLog[Len(cLog)].ev = "end"
          /\ FailedStages = {cLog[Len(cLog)].stage}
    /\ cRet = 0 => cLog[Len(cLog)].stage = "report"

\* the loader of the fourth store failed after three stores were loaded
FailedLoadWitness ==
    /\ cPc = "done"
    /\ cRet = 1
    /\ cLog[Len(cLog)] = Event("end", "load", "adb", "error")

\* whether the validator ended with overall_status FAILED
ValidationFailed ==
    \E i \in 1..Len(cLog) :
        cLog[i].ev = "end" /\ cLog[i].stage = "validate" /\ cLog[i].outcome = "FAILED"

\* C29: after a FAILED validation no loader starts; the run ends there with
\* 1, unless the migration type is Validation Only, in which case it goes on
\* to the report.
FailedValidationStops ==
    ValidationFailed =>
        /\ ~Started("load")
        /\ IF IsValidationOnly(cArgs.migration_type)
           THEN cPc = "done" => Started("report")
           ELSE cPc = "done" /\ cRet = 1 /\ ~Started("report")

(***************************************************************************)
(*                  Properties of the loader's row count                   *)
(***************************************************************************)

RECURSIVE RowsLoadedSum(_)
\* the sum of rows_loaded over a list of table results
RowsLoadedSum(table_results) ==
    IF table_results = <<>> THEN 0
    ELSE Head(table_results).rows_loaded + RowsLoadedSum(Tail(table_results))

\* C36: at the end of a relational load total_rows_loaded is the sum of the
\* tables' row counts when the transaction committed, and 0 when it was
\* rolled back.
TotalRowsAreCommittedRows ==
    lPc = "done" =>
        results.total_rows_loaded =
            (IF didCommit THEN RowsLoadedSum(results.tables_loaded) ELSE 0)

(***************************************************************************)
(*                  Properties of the validator's counters                 *)
(***************************************************************************)

\* C37: when validation ran its families, every family has checks_run =
\* checks_passed + checks_failed and as many error entries as failed checks,
\* and so has the aggregate: total_checks = total_passed + total_failed and
\* total_failed = |errors|.
CountersAddUp ==
    (vPc = "done" /\ vResults.checks # <<>>) =>
        /\ Len(vResults.checks) = Len(Families)
        /\ \A i \in 1..Len(vResults.checks) :
              LET f == vResults.checks[i]
              IN /\ f.checks_run = f.checks_passed + f.checks_failed
                 /\ Len(f.errors) = f.checks_failed
        /\ vResults.total_checks = vResults.total_passed + vResults.total_failed
        /\ vResults.total_failed = Len(vResults.errors)
        /\ vResults.total_warnings = Len(vResults.warnings)

\* a validation with failed checks in two families, warnings and passed
\* checks
MixedOutcomesWitness ==
    /\ vPc = "done"
    /\ vResults.checks # <<>>
    /\ Cardinality({i \in 1..Len(vResults.checks) : vResults.checks[i].checks_failed > 0}) >= 2
    /\ vResults.total_warnings >= 2
    /\ vResults.total_passed >= 1
    /\ \E i \in 1..Len(vResults.checks) :
          vResults.checks[i].checks_passed > 0 /\ vResults.checks[i].warnings # <<>>
          /\ vResults.checks[i].checks_failed > 0

(***************************************************************************)
(*                   Properties of the consistency map                     *)
(***************************************************************************)

\* C38: get(rule_name, original) returns a value only if set stored one for
\* that same rule name and original.
MapKeyedByPair ==
    \A rule_name \in TokenRuleNames, value \in TokenOriginals :
        MapGet(mappings, rule_name, value) # None =>
            [rule |-> rule_name, original |-> value] \in storedFor

(***************************************************************************)
(*           Properties of the analyzer's order and break-points           *)
(***************************************************************************)

\* the catalog sch listed in sorted order: tables by name, and the foreign
\* keys of each table by the name they reference
SortedCatalog(sch) ==
    SortSeq([i \in 1..Len(sch) |->
                [name |-> sch[i].name,
                 foreign_keys |-> SortSeq(sch[i].foreign_keys, LAMBDA a, b : a < b)]],
            LAMBDA t, u : t.name < u.name)

\* C34: the extraction order, the cycle list and the break-points depend on
\* the tables and foreign keys declared only, not on the order in which
\* the catalog lists them: they are those of the same catalog listed in
\* sorted order.
ListingOrderIrrelevant ==
    aPc = "done" =>
        /\ analysis.extraction_order = main_result(SortedCatalog(schema)).extraction_order
        /\ analysis.circular_dependencies =
              main_result(SortedCatalog(schema)).circular_dependencies

\* C35: the break-point of every reported cycle is an edge of the graph on
\* that cycle: break_to is the node that follows break_from in the cycle
\* sequence, the last distinct node being followed by the first.
BreakPointOnCycle ==
    aPc = "done" =>
        \A i \in 1..Len(Cycles) :
            LET cycle == Cycles[i].tables
                bp == Cycles[i].break_point
                n == Len(cycle) - 1
            IN /\ n >= 1
               /\ cycle[n + 1] = cycle[1]
               /\ \E k \in 1..n :
                     /\ cycle[k] = bp.break_from
                     /\ bp.break_to = cycle[(k % n) + 1]
               /\ <<bp.break_from, bp.break_to>> \in Edges(G)

\* a cycle of two tables whose break-point starts at its last distinct
\* table, so that break_to wraps to the first
BreakPointWrapsWitness ==
    /\ aPc = "done"
    /\ \E i \in 1..Len(Cycles) :
          /\ Len(Cycles[i].tables) = 3
          /\ Cycles[i].break_point.break_from = Cycles[i].tables[2]
          /\ Cycles[i].break_point.break_to = Cycles[i].tables[1]
          /\ Cycles[i].tables[1] # Cycles[i].tables[2]

\* the tables of the extraction order that the catalog declares in, or
\* references from, the store-th store
StoreOrder(store) == SelectSeq(Order, LAMBDA n : StoreIndex(n) = store)

\* C40: extraction_by_store lists for each store exactly the tables of that
\* store in the extraction order, by their names within the store and in
\* the same relative order; every edge of the graph joins two tables of one
\* store, and a parent that precedes its child in the extraction order
\* precedes it in the list of their store.
ByStoreFollowsOrder ==
    aPc = "done" =>
        /\ \A store \in 1..Len(StoreNames) :
              analysis.extraction_by_store[StoreNames[store]] =
                 [i \in 1..Len(StoreOrder(store)) |-> TableText(StoreOrder(store)[i])]
        /\ \A e \in Edges(G) :
              /\ StoreIndex(e[1]) = StoreIndex(e[2])
              /\ (e[1] \in Range(Order) /\ e[2] \in Range(Order)
                    /\ Index(Order, e[1]) < Index(Order, e[2]))
                 => LET tables == analysis.extraction_by_store[StoreNames[StoreIndex(e[1])]]
                    IN Index(tables, TableText(e[1])) < Index(tables, TableText(e[2]))

\* an extraction order that interleaves the stores: a parent of the first
\* store, then a table of the second, then the child of that parent
InterleavedStoresWitness ==
    /\ aPc = "done"
    /\ Len(Order) = 3
    /\ StoreIndex(Order[1]) = 1 /\ StoreIndex(Order[2]) = 2 /\ StoreIndex(Order[3]) = 1
    /\ <<Order[1], Order[3]>> \in Edges(G)

(***************************************************************************)
(*                   Properties of loading a table twice                   *)
(***************************************************************************)

\* a second run of the loader on the staged files of the run that has just
\* committed, against the target that run left
SecondLoad ==
    load_tables([work |-> committed, committed |-> committed], lFiles, strategy, 1)

\* C39: after a committed load, loading the same staged tables again with
\* upsert or merge succeeds and leaves the target as it is, and loading them
\* again with insert fails, when a staged table has rows, and leaves the
\* target as it is.
SecondLoadLeavesTarget ==
    (lPc = "done" /\ didCommit) =>
        /\ SecondLoad.c.committed = committed
        /\ strategy \in {"upsert", "merge"} => SecondLoad.success
        /\ (strategy = "insert" /\ WithRows # {}) => ~SecondLoad.success

\* an insert load committed rows over a target that held others, and an
\* upsert load replaced rows the target held
SecondInsertFailsWitness ==
    /\ lPc = "done"
    /\ didCommit
    /\ strategy = "insert"
    /\ WithRows # {}
    /\ \E t \in LoadTables : db0[t] # {} /\ committed[t] # db0[t]
    /\ ~SecondLoad.success

(***************************************************************************)
(*          Properties of connections and of the graph target              *)
(***************************************************************************)

\* C31: when the extractor or the loader has returned, the connection or
\* driver it opened is closed.
ConnectionsReleased ==
    /\ (lPc = "done" /\ conn # "none") => conn = "closed"
    /\ (exPc = "done" /\ exConn # "none") => exConn = "closed"

\* C32: a graph load that failed reports the numbers of nodes and
\* relationships that were loaded before the failure.
FailedGraphLoadCounts ==
    (lPc = "done" /\ neo4j # <<>> /\ ~neo4j[1].success) =>
        /\ neo4j[1].nodes_loaded = gLoaded.nodes
        /\ neo4j[1].relationships_loaded = gLoaded.rels

\* the node of the target that is the staged node exported with the
\* internal id x: the one carrying the same id property
TargetNodeOf(x) ==
    LET k == CHOOSE k \in 1..Len(gStaged.nodes) : gStaged.nodes[k].neo4j_id = x
    IN CHOOSE n \in gTarget.nodes : n.id = gStaged.nodes[k].id

\* C33: after a graph load that succeeded, every staged relationship joins
\* the target nodes that are its two staged end nodes, whatever internal
\* ids the target gave them.
EdgesJoinSameNodes ==
    (lPc = "done" /\ neo4j # <<>> /\ neo4j[1].success) =>
        \A i \in 1..Len(gStaged.rels) :
            [start |-> TargetNodeOf(gStaged.rels[i].start_id).internal,
             end |-> TargetNodeOf(gStaged.rels[i].end_id).internal] \in gTarget.rels

====
